---- MODULE Spec2Model ----
(***************************************************************************)
(* Penny-basing alert pipeline: the flip-only LiveTrader (live_trader.py)  *)
(* driven inline or by tailing the alert log, against a broker that fills, *)
(* partially fills, rejects and cancels orders; and the alert gate of the  *)
(* imbalance detector (grok.py, on_book).                                  *)
(***************************************************************************)
EXTENDS Integers, Sequences, FiniteSets, TLC

\* ------------------------------------------------------------------ bounds
Symbols == {"A", "B"}
POSITION_SIZE == 2          \* LIVE_POSITION_SIZE, scaled down
SHORT_SIZE == 2             \* LIVE_SHORT_SIZE, scaled down
MAX_TRADES_PER_HOUR == 3    \* LIVE_MAX_TRADES_PER_HOUR, as in scenario S4
LIMIT_FILL_TIMEOUT == 2     \* LIVE_LIMIT_FILL_TIMEOUT, in clock units
LIMIT_POLL_INTERVAL == 1    \* LIVE_LIMIT_FILL_POLL_INTERVAL, in clock units
MaxAlerts == 4              \* alerts delivered to an engine that sends market orders
LimitAlerts == 2            \* alerts delivered to an engine that sends limit orders
MaxOrders == 2              \* limit orders the broker accepts
MaxTime == 7200             \* the clock stops here
MaxRestarts == 1            \* times live_trader.py is started again

\* ------------------------------------------------------- program constants
RATE_WINDOW_SEC == 3600     \* _enforce_trade_rate_limit: cutoff = now - 3600

Directions == {"ask-heavy", "bid-heavy"}
Policies == {"MARKET", "REPRICE", "ABANDON"}
NoQty == -1                 \* a status reply that carries no filled quantity
TickSteps == {RATE_WINDOW_SEC}
\* fractional part of a market fill price, in thousandths of a dollar
FillFractions == {10, 990}

VARIABLES
    cfg,                 \* the configuration (timeout policy, dry_run, prefer_limit,
                         \* inline or tail delivery) and the run's environment
    now,                 \* time.time(), read between alerts: the seconds one alert's
                         \* handling takes are kept in frame.waited
    positions,           \* LiveTrader.positions (0 = symbol absent)
    outstanding_limits,  \* LiveTrader.outstanding_limits
    trade_timestamps,    \* LiveTrader.trade_timestamps
    last_alert_id,       \* LiveTrader.last_alert_id
    saved,               \* contents of the state file
    killFile,            \* the kill-switch file exists
    alerts,              \* rows of the alerts table, rowid = index
    orders,              \* the broker's limit orders, order id = index
    reported,            \* signed shares the broker has reported filled, per symbol
    partial,             \* the broker has left a limit order partially filled
    pc,                  \* where the engine is
    cur,                 \* the alert process_alert is handling
    frame,               \* the running _submit_order call
    todo,                \* emergency shutdown: positions still to flatten
    batch,               \* run(): rowids fetched and not yet processed
    trace,               \* executor calls made for the current alert / shutdown
    fills,               \* times of the fills recorded in the hour before the last one
    exitCode,            \* SystemExit code, -1 while running
    live_orders,         \* rows of the live_orders table, oldest first
    hist,                \* what this LiveTrader has been handed since it started
    clock,               \* grok.py: time() as on_book reads it
    last_alert,          \* grok.py: last_alert (NoAlertYet = symbol absent)
    last_imbalance,      \* grok.py: last_imbalance, per symbol the ring of (ts, direction)
    emitted,             \* grok.py: the alerts on_book has emitted, oldest first
    grok,                \* grok.py: its mode, whether it runs, how often it was
                         \* started, and inline_only_next_alert_id
    logged,              \* rows on_book inserted into the alerts table, rowid = index
    work,                \* process_alert calls handed to the executor and not yet run
    inline_handled,      \* alerts the inline LiveTrader was called with, in call order
    tail_last_alert_id,  \* last_alert_id of a LiveTrader that tails the detector's log
    fd,                  \* one order's filled_seen under _apply_filled_delta
    rp,                  \* the alert log applied twice to a LiveTrader whose orders all fill
    pq,                  \* one order's reference price and limit price
    l2,                  \* grok.py: one level-2 payload, flattened and measured
    sim,                 \* simulator.py: one order of a SimulatedExecutor
    ticks,               \* the latest book tick of each symbol, by the candidate it gave
    rl,                  \* LiveTrader.run: where its loop stands and its sleeps
    mk                   \* grok.py's market data of one symbol: last_l1, the rolling
                         \* window of trade prints, the alert price on_book took

\* the trader's variables and the detector's
tvars == <<cfg, now, positions, outstanding_limits, trade_timestamps, last_alert_id,
           saved, killFile, alerts, orders, reported, partial, pc, cur, frame, todo,
           batch, trace, fills, exitCode, live_orders, hist>>
dvars == <<clock, last_alert, last_imbalance, emitted, grok, logged, work, inline_handled,
           tail_last_alert_id>>
\* the variables of the checks of _apply_filled_delta and of the replayed log
gvars == <<pq, l2, sim, ticks, rl, mk>>
fvars == <<fd, rp, gvars>>
vars == <<tvars, dvars, fvars>>

\* --------------------------------------------------------------- helpers
Max(a, b) == IF a >= b THEN a ELSE b
Min(a, b) == IF a <= b THEN a ELSE b
Abs(n) == IF n < 0 THEN -n ELSE n

NoLimit == [order_id |-> 0, since |-> 0, side |-> "", qty |-> 0, filled_seen |-> 0]
\* the alert being handled; what follows persist only observes the handling:
\* kill: the kill-switch file existed when it began; pre: the symbol's position
\* then; lim, seen0: the outstanding limit order then and its filled_seen;
\* dec: the position _handle_alert decided on; blocked: reconciliation returned
\* True; closed: how the closing order of a flip ended
NoAlert == [id |-> 0, symbol |-> "", direction |-> "", persist |-> FALSE,
            kill |-> FALSE, pre |-> 0, lim |-> 0, seen0 |-> 0, dec |-> 0,
            blocked |-> FALSE, closed |-> ""]
\* the locals of one _submit_order call; waited is the time the running
\* _poll_limit_fill has slept; start_pos, mkt and frac only observe the call: the
\* position when it began, and the side and price fraction of a market fill;
\* error: the result dict that will be recorded carries an error; rejects counts
\* the submissions of the call the broker rejected
NoFrame == [symbol |-> "", side |-> "", qty |-> 0, leg |-> "", use_limit |-> FALSE,
            order_id |-> 0, filled_qty |-> 0, filled |-> FALSE, fill_status |-> "",
            filled_via |-> "", waited |-> 0, seen |-> 0, rqty |-> 0,
            cancelled |-> FALSE, error |-> FALSE, rejects |-> 0,
            start_pos |-> 0, mkt |-> "", frac |-> 0]

Ev(op, sym, side, qty, ok, leg) ==
    [op |-> op, symbol |-> sym, side |-> side, qty |-> qty, ok |-> ok, leg |-> leg]

FILLED_STATUSES == {"FILLED", "FILLED_ALL", "FILLED_ALL_SHARES", "EXECUTED",
                    "COMPLETED", "FILLED_ALL_LOTS"}
TERMINAL_REJECT_STATUSES == {"CANCELED", "CANCELLED", "REJECTED", "EXPIRED"}
PARTIAL_STATUSES == {"PARTIALLY_FILLED", "PARTIAL_FILL", "WORKING", "ACCEPTED", "QUEUED"}

\* _record_fill: delta = qty if side in {BUY, COVER} else -qty
SideDelta(side, qty) == IF side \in {"BUY", "COVER"} THEN qty ELSE -qty

\* _apply_position_delta (a position of 0 is popped from the dict)
ApplyPositionDelta(pos, sym, delta) == [pos EXCEPT ![sym] = @ + delta]

\* _enforce_trade_rate_limit: the timestamps kept after a fill at time t
PrunedTimestamps(ts, t) ==
    SelectSeq(Append(ts, t), LAMBDA x : x >= t - RATE_WINDOW_SEC)

\* a faulty variant of RateExceeded that trips one fill early
RateReached(ts) == Len(ts) >= MAX_TRADES_PER_HOUR

\* _enforce_trade_rate_limit: len(self.trade_timestamps) > self.max_trades_per_hour
RateExceeded(ts) == Len(ts) > MAX_TRADES_PER_HOUR

\* _save_state: a no-op in dry-run
SaveState(pos, lastId) ==
    IF cfg.dry_run THEN saved ELSE [positions |-> pos, last_alert_id |-> lastId]

\* a faulty variant of ApplyFilledSeen that takes the reported quantity as it comes
ApplyFilledSeenUncapped(qty, filled_qty, filled_qty_seen) ==
    IF filled_qty < filled_qty_seen THEN filled_qty_seen
    ELSE filled_qty

\* _apply_filled_delta: the new filled_seen
ApplyFilledSeen(qty, filled_qty, filled_qty_seen) ==
    IF filled_qty < filled_qty_seen THEN filled_qty_seen
    ELSE Min(filled_qty, qty)

\* ------------------------------------------------------------ the broker
\* what may have happened to a working order since the engine last looked:
\* more shares filled, or the broker ended it (cancelled, expired, rejected)
AdvanceSet(o) ==
    IF o.status # "WORKING" THEN {o}
    ELSE {[o EXCEPT !.filled = g,
                    !.status = IF g = o.qty THEN "FILLED" ELSE "WORKING"] :
            g \in o.filled..o.qty}
         \cup {[o EXCEPT !.status = "CANCELED"]}

\* SchwabOrderExecutor.fetch_order_status: an error, or the status with the
\* filled quantity (`filledQuantity or filled_quantity`: 0 and a missing field
\* both read as None; a reply about a filled order may leave the field out)
Reports(o) ==
    {[err |-> TRUE, status |-> "", fq |-> NoQty]} \cup
    {[err |-> FALSE, status |-> o.status, fq |-> q] :
        q \in {IF o.filled > 0 THEN o.filled ELSE NoQty}
             \cup (IF o.status \in FILLED_STATUSES THEN {NoQty} ELSE {})}

\* an order that has ended and that the engine holds no id of can no longer be
\* observed: the broker's book keeps only that it existed
Archived == [symbol |-> "", side |-> "", qty |-> 0, filled |-> 0, rep |-> 0,
             status |-> "ARCHIVED"]

Archive(os, lims) ==
    [i \in 1..Len(os) |->
        IF os[i].status # "WORKING" /\ \A s \in Symbols : lims[s].order_id # i
        THEN Archived ELSE os[i]]

NewOrder(sym, side, qty) ==
    [symbol |-> sym, side |-> side, qty |-> qty, filled |-> 0, rep |-> 0,
     status |-> "WORKING"]

\* the filled quantity of order o the broker has reported once it sent reply r
\* (a reply that the order is filled reports all of it)
Reported(o, r) ==
    IF r.err THEN o.rep
    ELSE IF r.fq # NoQty THEN Max(o.rep, r.fq)
    ELSE IF r.status \in FILLED_STATUSES THEN o.qty
    ELSE o.rep

Working(sym) == \E i \in 1..Len(orders) :
    orders[i].symbol = sym /\ orders[i].status = "WORKING"

\* ------------------------------------------------- LiveTrader, pure parts
\* a faulty variant of HandleDecision that adds to a position it already holds
HandleDecisionStacking(direction, position) ==
    IF direction = "ask-heavy" THEN
        IF position > 0 THEN [act |-> "close", side |-> "SELL", qty |-> position]
        ELSE [act |-> "open", side |-> "SHORT", qty |-> SHORT_SIZE]
    ELSE IF direction = "bid-heavy" THEN
        IF position < 0 THEN [act |-> "close", side |-> "COVER", qty |-> Abs(position)]
        ELSE [act |-> "open", side |-> "BUY", qty |-> POSITION_SIZE]
    ELSE [act |-> "skip", side |-> "", qty |-> 0]

\* a faulty variant of HandleDecision that buys on ask-heavy and sells short on
\* bid-heavy when the symbol is flat
HandleDecisionReversed(direction, position) ==
    IF direction = "ask-heavy" THEN
        IF position < 0 THEN [act |-> "skip", side |-> "", qty |-> 0]
        ELSE IF position > 0 THEN [act |-> "close", side |-> "SELL", qty |-> position]
        ELSE [act |-> "open", side |-> "BUY", qty |-> POSITION_SIZE]
    ELSE IF direction = "bid-heavy" THEN
        IF position > 0 THEN [act |-> "skip", side |-> "", qty |-> 0]
        ELSE IF position < 0 THEN [act |-> "close", side |-> "COVER", qty |-> Abs(position)]
        ELSE [act |-> "open", side |-> "SHORT", qty |-> SHORT_SIZE]
    ELSE [act |-> "skip", side |-> "", qty |-> 0]

\* a faulty variant of HandleDecision that sells short again when already short
HandleDecisionShortAgain(direction, position) ==
    IF direction = "ask-heavy" THEN
        IF position > 0 THEN [act |-> "close", side |-> "SELL", qty |-> position]
        ELSE [act |-> "open", side |-> "SHORT", qty |-> SHORT_SIZE]
    ELSE IF direction = "bid-heavy" THEN
        IF position > 0 THEN [act |-> "skip", side |-> "", qty |-> 0]
        ELSE IF position < 0 THEN [act |-> "close", side |-> "COVER", qty |-> Abs(position)]
        ELSE [act |-> "open", side |-> "BUY", qty |-> POSITION_SIZE]
    ELSE [act |-> "skip", side |-> "", qty |-> 0]

\* _handle_alert: what an alert asks for, given the symbol's position
HandleDecision(direction, position) ==
    IF direction = "ask-heavy" THEN
        IF position < 0 THEN [act |-> "skip", side |-> "", qty |-> 0]
        ELSE IF position > 0 THEN [act |-> "close", side |-> "SELL", qty |-> position]
        ELSE [act |-> "open", side |-> "SHORT", qty |-> SHORT_SIZE]
    ELSE IF direction = "bid-heavy" THEN
        IF position > 0 THEN [act |-> "skip", side |-> "", qty |-> 0]
        ELSE IF position < 0 THEN [act |-> "close", side |-> "COVER", qty |-> Abs(position)]
        ELSE [act |-> "open", side |-> "BUY", qty |-> POSITION_SIZE]
    ELSE [act |-> "skip", side |-> "", qty |-> 0]

\* _handle_alert: the opening order that follows a close
OpeningOrder(direction) ==
    IF direction = "ask-heavy" THEN [side |-> "SHORT", qty |-> SHORT_SIZE]
    ELSE [side |-> "BUY", qty |-> POSITION_SIZE]

\* a faulty variant of OpenAfterClose that opens whatever became of the close
OpenRegardless(flattened) == TRUE

\* _handle_alert: `if not flattened: return`
OpenAfterClose(flattened) == flattened

\* _poll_limit_fill: one pass of the loop body on a status reply
PollStep(r, qty, seen) ==
    IF r.err THEN [res |-> "failed", seen |-> seen, amt |-> 0]
    ELSE
      LET seen1 == IF r.fq # NoQty THEN ApplyFilledSeen(qty, r.fq, seen) ELSE seen
      IN  IF r.status \in FILLED_STATUSES
            THEN [res |-> "filled", seen |-> qty, amt |-> qty - seen]
          ELSE IF r.status \in TERMINAL_REJECT_STATUSES
            THEN [res |-> "failed", seen |-> seen1, amt |-> seen1 - seen]
          ELSE IF r.status \in PARTIAL_STATUSES /\ seen1 >= qty
            THEN [res |-> "filled", seen |-> seen1, amt |-> seen1 - seen]
          ELSE [res |-> "continue", seen |-> seen1, amt |-> seen1 - seen]

\* a faulty variant of Ended that takes every order for ended
EndedAlways(status_name) == TRUE

\* _reconcile_outstanding_limit: the order has ended, the entry is dropped
Ended(status_name) == status_name \in FILLED_STATUSES \cup TERMINAL_REJECT_STATUSES

\* a faulty variant of RemainingQty that forgets what the limit order filled
WholeQty(qty, filled_qty) == qty

\* _submit_order: remaining_qty = max(qty - filled_qty, 0)
RemainingQty(qty, filled_qty) == Max(qty - filled_qty, 0)

\* the fill times that lie within the 3600 s up to t
WithinLastHour(ts, t) == SelectSeq(ts, LAMBDA x : t - x <= 3600)

\* _record_fill with qty = amt (nothing when amt = 0): position, state file,
\* trade timestamps
Fill(sym, side, amt) ==
    IF amt > 0 THEN
        /\ positions' = ApplyPositionDelta(positions, sym, SideDelta(side, amt))
        /\ trade_timestamps' = PrunedTimestamps(trade_timestamps, now)
        /\ fills' = WithinLastHour(Append(fills, now), now)
        /\ saved' = SaveState(positions', last_alert_id)
    ELSE UNCHANGED <<positions, trade_timestamps, fills, saved>>

\* _record_fill -> _enforce_trade_rate_limit engages the emergency shutdown
Trips(amt) == amt > 0 /\ RateExceeded(PrunedTimestamps(trade_timestamps, now))

\* the history of one LiveTrader: start is its last_alert_id after construction,
\* handled the ids process_alert was called with since; runs counts the
\* restarts, stop_id is the last_alert_id the previous LiveTrader stopped with
\* (-1: none), legs the _submit_order calls made so far
NoHist == [start |-> 0, handled |-> <<>>, runs |-> 0, stop_id |-> -1, legs |-> 0]

\* _record_order: the row written for a _submit_order call (error: the result
\* carries an error, in its error field or in its fallback)
OrderRow(alert_id, f) ==
    [alert_rowid |-> alert_id, symbol |-> f.symbol, side |-> f.side, qty |-> f.qty,
     error |-> f.error, fill_status |-> f.fill_status]

\* ------------------------------------------------------------------ Init
\* alerts: how many alerts the run delivers; kill: the operator may create the
\* kill-switch file during the run
Conf(p, d, l, i, S) ==
    [policy |-> p, dry_run |-> d, prefer_limit |-> l, inline |-> i, symbols |-> S,
     alerts |-> IF l /\ ~d THEN LimitAlerts ELSE MaxAlerts,
     kill |-> ~l \/ d]

\* the configurations explored: every timeout policy with limit orders on one
\* symbol, delivered inline; market orders only and dry-run (which takes the
\* limit-order path), inline and tailing the log on one symbol, inline on two
Configs ==
    {Conf(p, FALSE, TRUE, TRUE, {"A"}) : p \in Policies}
    \cup {Conf("MARKET", d, d, i, {"A"}) : d \in BOOLEAN, i \in BOOLEAN}
    \cup {Conf("MARKET", d, d, TRUE, Symbols) : d \in BOOLEAN}

\* the trader after construction with no state file
TraderStart ==
    /\ now = 0
    /\ positions = [s \in Symbols |-> 0]
    /\ outstanding_limits = [s \in Symbols |-> NoLimit]
    /\ trade_timestamps = <<>>
    /\ last_alert_id = 0
    /\ saved = [positions |-> [s \in Symbols |-> 0], last_alert_id |-> 0]
    /\ killFile = FALSE
    /\ alerts = <<>>
    /\ orders = <<>>
    /\ reported = [s \in Symbols |-> 0]
    /\ partial = FALSE
    /\ pc = "idle"
    /\ cur = NoAlert
    /\ frame = NoFrame
    /\ todo = <<>>
    /\ batch = <<>>
    /\ trace = <<>>
    /\ fills = <<>>
    /\ exitCode = -1
    /\ live_orders = <<>>
    /\ hist = NoHist

\* ------------------------------------------------------- the environment
\* time passes while the engine waits for the next alert
Tick ==
    /\ UNCHANGED <<dvars, fvars>>
    /\ UNCHANGED <<live_orders, hist>>
    /\ pc = "idle"
    /\ \E d \in TickSteps : now + d <= MaxTime /\ now' = now + d
    /\ UNCHANGED <<cfg, partial, positions, outstanding_limits, trade_timestamps, last_alert_id,
                   saved, killFile, alerts, orders, reported, pc, cur, frame, todo,
                   batch, trace, fills, exitCode>>

\* the operator creates the kill-switch file (between two alerts)
CreateKillFile ==
    /\ UNCHANGED <<dvars, fvars>>
    /\ UNCHANGED <<live_orders, hist>>
    /\ pc \in {"idle", "finish"}
    /\ cfg.kill
    /\ ~killFile
    /\ killFile' = TRUE
    /\ UNCHANGED <<cfg, partial, now, positions, outstanding_limits, trade_timestamps,
                   last_alert_id, saved, alerts, orders, reported, pc, cur, frame,
                   todo, batch, trace, fills, exitCode>>

\* the detector appends a row to the alerts table
AppendAlert ==
    /\ UNCHANGED <<dvars, fvars>>
    /\ UNCHANGED <<live_orders, hist>>
    /\ pc \in {"idle", "stopped", "exited"}
    /\ ~cfg.inline
    /\ Len(alerts) < cfg.alerts
    /\ \E s \in cfg.symbols, d \in Directions :
          alerts' = Append(alerts, [symbol |-> s, direction |-> d])
    /\ UNCHANGED <<cfg, partial, now, positions, outstanding_limits, trade_timestamps,
                   last_alert_id, saved, killFile, orders, reported, pc, cur, frame,
                   todo, batch, trace, fills, exitCode>>

\* a working order fills (further) or is ended by the broker while nobody polls it
BrokerFill ==
    /\ UNCHANGED <<dvars, fvars>>
    /\ UNCHANGED <<live_orders, hist>>
    /\ pc \in {"idle", "exited"}
    /\ \E i \in 1..Len(orders) : \E o2 \in AdvanceSet(orders[i]) :
          /\ o2 # orders[i]
          /\ orders' = Archive([orders EXCEPT ![i] = o2],
                                IF pc = "exited" THEN [s \in Symbols |-> NoLimit]
                                ELSE outstanding_limits)
          /\ partial' = (partial \/ (0 < o2.filled /\ o2.filled < o2.qty))
    /\ UNCHANGED <<reported, cfg, now, positions, outstanding_limits, trade_timestamps,
                   last_alert_id, saved, killFile, alerts, pc, cur, frame, todo, batch,
                   trace, fills, exitCode>>

\* ------------------------------------------------------ _handle_alert
\* the first leg of _submit_order for a decision, or nothing to do
\* (sets pc and frame; pos is the symbol's position the decision reads)
Act(sym, direction, pos) ==
    LET d == HandleDecision(direction, pos)
    IN  IF d.act = "skip"
        THEN /\ pc' = "finish"
             /\ frame' = NoFrame
        ELSE /\ pc' = "submit"
             /\ frame' = [NoFrame EXCEPT !.symbol = sym, !.side = d.side, !.qty = d.qty,
                                         !.leg = d.act, !.start_pos = pos]

\* process_alert(id, sym, direction) up to the first executor call
Begin(id, sym, direction, persist) ==
    /\ last_alert_id' = Max(last_alert_id, id)
    /\ hist' = [hist EXCEPT !.handled = Append(@, id)]
    /\ cur' = [id |-> id, symbol |-> sym, direction |-> direction, persist |-> persist,
               kill |-> killFile, pre |-> positions[sym],
               lim |-> outstanding_limits[sym].order_id,
               seen0 |-> outstanding_limits[sym].filled_seen,
               dec |-> positions[sym], blocked |-> FALSE, closed |-> ""]
    /\ trace' = <<>>
    /\ IF outstanding_limits[sym] # NoLimit
       THEN pc' = "reconcile" /\ frame' = NoFrame
       ELSE Act(sym, direction, positions[sym])

\* grok.py dispatches an alert inline: LiveTrader.process_alert
InlineAlert ==
    /\ UNCHANGED <<dvars, fvars>>
    /\ UNCHANGED live_orders
    /\ pc = "idle"
    /\ cfg.inline
    /\ last_alert_id < cfg.alerts
    /\ \E s \in cfg.symbols, d \in Directions : Begin(last_alert_id + 1, s, d, TRUE)
    /\ UNCHANGED <<cfg, partial, now, positions, outstanding_limits, trade_timestamps, saved,
                   killFile, alerts, orders, reported, todo, batch, fills, exitCode>>

\* a faulty variant of NewRows that selects rowid >= last_alert_id
RowsFrom(lastId, n) ==
    [k \in 1..(n - Max(lastId, 1) + 1) |-> Max(lastId, 1) + k - 1]

\* run(): SELECT rowid ... WHERE rowid > ? ORDER BY rowid ASC, on a table of n rows
NewRows(lastId, n) == [k \in 1..(n - lastId) |-> lastId + k]

\* LiveTrader.run, one pass of the loop: kill switch, then the new rows
RunPoll ==
    /\ UNCHANGED <<dvars, fvars>>
    /\ UNCHANGED live_orders
    /\ pc = "idle"
    /\ ~cfg.inline
    /\ IF killFile
       THEN /\ pc' = "shutdown"
            /\ trace' = <<>>
            /\ UNCHANGED <<last_alert_id, cur, frame, batch, hist>>
       ELSE LET rows == NewRows(last_alert_id, Len(alerts))
            IN  /\ rows # <<>>
                /\ batch' = Tail(rows)
                /\ Begin(Head(rows), alerts[Head(rows)].symbol,
                         alerts[Head(rows)].direction, FALSE)
    /\ UNCHANGED <<cfg, partial, now, positions, outstanding_limits, trade_timestamps, saved,
                   killFile, alerts, orders, reported, todo, fills, exitCode>>

\* process_alert returns: persist; run() goes on to the next fetched row, or
\* saves the state after the last one
Return ==
    /\ UNCHANGED <<dvars, fvars>>
    /\ UNCHANGED live_orders
    /\ pc = "finish"
    /\ IF batch # <<>>
       THEN /\ Begin(Head(batch), alerts[Head(batch)].symbol,
                     alerts[Head(batch)].direction, FALSE)
            /\ batch' = Tail(batch)
            /\ UNCHANGED saved
            /\ UNCHANGED orders
       ELSE /\ saved' = SaveState(positions, last_alert_id)
            /\ pc' = "idle"
            /\ cur' = NoAlert
            /\ frame' = NoFrame
            /\ trace' = <<>>
            /\ orders' = Archive(orders, outstanding_limits)
            /\ UNCHANGED <<last_alert_id, batch, hist>>
    /\ UNCHANGED <<cfg, partial, now, positions, outstanding_limits, trade_timestamps, killFile,
                   alerts, reported, todo, fills, exitCode>>

\* ------------------------------------------------------ stop and restart
\* the operator interrupts run() between two passes: main() calls sys.exit(0) and
\* the atexit hook saves the state (not in dry-run)
Stop ==
    /\ UNCHANGED <<dvars, fvars>>
    /\ pc = "idle"
    /\ ~cfg.inline
    /\ hist.runs < MaxRestarts
    /\ pc' = "stopped"
    /\ exitCode' = 0
    /\ saved' = SaveState(positions, last_alert_id)
    /\ UNCHANGED <<cfg, partial, now, positions, outstanding_limits, trade_timestamps,
                   last_alert_id, killFile, alerts, orders, reported, cur, frame, todo,
                   batch, trace, fills, live_orders, hist>>

\* _load_state, then _init_db_schema: a last_alert_id of 0 is replaced by
\* MAX(rowid) of the alerts table
LoadedAlertId(state, n) == IF state.last_alert_id = 0 THEN n ELSE state.last_alert_id

\* live_trader.py is started again: a new LiveTrader reads the state file
Restart ==
    /\ UNCHANGED <<dvars, fvars>>
    /\ pc \in {"stopped", "exited"}
    /\ ~cfg.inline
    /\ hist.runs < MaxRestarts
    /\ positions' = saved.positions
    /\ last_alert_id' = LoadedAlertId(saved, Len(alerts))
    /\ outstanding_limits' = [s \in Symbols |-> NoLimit]
    /\ trade_timestamps' = <<>>
    /\ fills' = <<>>
    /\ orders' = Archive(orders, [s \in Symbols |-> NoLimit])
    /\ pc' = "idle"
    /\ cur' = NoAlert
    /\ frame' = NoFrame
    /\ todo' = <<>>
    /\ batch' = <<>>
    /\ trace' = <<>>
    /\ exitCode' = -1
    /\ hist' = [hist EXCEPT !.start = last_alert_id', !.handled = <<>>,
                            !.runs = @ + 1, !.stop_id = last_alert_id]
    /\ UNCHANGED <<cfg, partial, now, saved, killFile, alerts, reported, live_orders>>

\* ------------------------------------------------------ _submit_order
\* the broker's book after it moved order i to o2 and sent reply r about it
BrokerUpdate(i, o2, r) ==
    /\ orders' = [orders EXCEPT ![i] = [o2 EXCEPT !.rep = Reported(o2, r)]]
    /\ partial' = (partial \/ (0 < o2.filled /\ o2.filled < o2.qty))
    /\ reported' = [reported EXCEPT ![o2.symbol] =
                        @ + SideDelta(o2.side, Reported(o2, r) - o2.rep)]

\* a market order the broker accepted is reported executed in full (there is no
\* broker in dry-run)
BrokerMarket(sym, side, qty) ==
    reported' = IF cfg.dry_run THEN reported
                ELSE [reported EXCEPT ![sym] = @ + SideDelta(side, qty)]

\* executor.submit_market for the whole order, and what _submit_order does with
\* the result (f: the frame, lims: outstanding_limits after the pop)
MarketOrder(f, lims) ==
    /\ outstanding_limits' = lims
    /\ UNCHANGED orders
    /\ \E accepted \in (IF cfg.dry_run THEN {TRUE} ELSE BOOLEAN) :
          /\ trace' = Append(trace, Ev("submit_market", f.symbol, f.side, f.qty,
                                       accepted, f.leg))
          /\ IF accepted
             THEN /\ Fill(f.symbol, f.side, f.qty)
                  /\ BrokerMarket(f.symbol, f.side, f.qty)
                  /\ \E fr \in FillFractions :
                       IF Trips(f.qty)
                       THEN /\ pc' = "shutdown"
                            /\ frame' = [f EXCEPT !.mkt = f.side, !.frac = fr]
                       ELSE /\ pc' = "leg_done"
                            /\ frame' = [f EXCEPT !.filled = TRUE, !.filled_qty = f.qty,
                                            !.fill_status = "FILLED",
                                            !.filled_via = "MARKET",
                                            !.mkt = f.side, !.frac = fr]
             ELSE /\ Fill(f.symbol, f.side, 0)
                  /\ UNCHANGED reported
                  /\ pc' = "leg_done"
                  /\ frame' = [f EXCEPT !.fill_status = "FAILED", !.error = TRUE,
                                        !.rejects = @ + 1]

\* _submit_order from its start to the first answer of the broker
Submit ==
    /\ UNCHANGED <<dvars, fvars>>
    /\ UNCHANGED live_orders
    /\ hist' = [hist EXCEPT !.legs = @ + 1]
    /\ pc = "submit"
    /\ LET sym == frame.symbol
           lims == [outstanding_limits EXCEPT ![sym] = NoLimit]
       IN  IF ~cfg.prefer_limit
           THEN MarketOrder(frame, lims)
           ELSE IF cfg.dry_run
           THEN /\ trace' = Append(trace, Ev("submit_limit", sym, frame.side, frame.qty,
                                             TRUE, frame.leg))
                /\ Fill(sym, frame.side, frame.qty)
                /\ outstanding_limits' = lims
                /\ UNCHANGED <<orders, reported>>
                /\ IF Trips(frame.qty)
                   THEN pc' = "shutdown" /\ frame' = [frame EXCEPT !.use_limit = TRUE]
                   ELSE /\ pc' = "leg_done"
                        /\ frame' = [frame EXCEPT !.use_limit = TRUE, !.filled = TRUE,
                                        !.filled_qty = frame.qty,
                                        !.fill_status = "FILLED", !.filled_via = "LIMIT"]
           ELSE
             \/ \* the limit order is rejected: fall back to a market order
                /\ trace' = Append(trace, Ev("submit_limit", sym, frame.side, frame.qty,
                                             FALSE, frame.leg))
                /\ pc' = "market"
                /\ frame' = [frame EXCEPT !.rejects = @ + 1]
                /\ outstanding_limits' = outstanding_limits
                /\ Fill(sym, frame.side, 0)
                /\ UNCHANGED <<orders, reported>>
             \/ \* accepted, with or without an order id in the reply
                /\ Len(orders) < MaxOrders
                /\ trace' = Append(trace, Ev("submit_limit", sym, frame.side, frame.qty,
                                             TRUE, frame.leg))
                /\ orders' = Append(orders, NewOrder(sym, frame.side, frame.qty))
                /\ Fill(sym, frame.side, 0)
                /\ UNCHANGED reported
                /\ \E hasId \in BOOLEAN :
                     IF hasId
                     THEN /\ outstanding_limits' =
                               [outstanding_limits EXCEPT ![sym] =
                                   [order_id |-> Len(orders) + 1, since |-> now,
                                    side |-> frame.side, qty |-> frame.qty,
                                    filled_seen |-> 0]]
                          /\ pc' = "poll"
                          /\ frame' = [frame EXCEPT !.use_limit = TRUE,
                                          !.order_id = Len(orders) + 1,
                                          !.waited = 0]
                     ELSE /\ outstanding_limits' = lims
                          /\ pc' = "leg_done"
                          /\ frame' = [frame EXCEPT !.use_limit = TRUE,
                                          !.fill_status = "FAILED"]
    /\ UNCHANGED <<cfg, partial, now, last_alert_id, killFile, alerts, cur, todo, batch, exitCode>>

\* the market order that replaces a rejected limit order
Market ==
    /\ UNCHANGED <<dvars, fvars>>
    /\ UNCHANGED <<live_orders, hist>>
    /\ pc = "market"
    /\ MarketOrder(frame, [outstanding_limits EXCEPT ![frame.symbol] = NoLimit])
    /\ UNCHANGED <<cfg, partial, now, last_alert_id, killFile, alerts, cur, todo, batch, exitCode>>

\* _poll_limit_fill, one pass of its loop: on the first limit order (pc = "poll")
\* or on the repriced one (pc = "repoll"), and what _submit_order does when it
\* returns
Poll ==
    /\ UNCHANGED <<dvars, fvars>>
    /\ UNCHANGED <<live_orders, hist>>
    /\ pc \in {"poll", "repoll"}
    /\ LET sym == frame.symbol
           first == pc = "poll"
           qty == IF first THEN frame.qty ELSE frame.rqty
           prior == IF first THEN 0 ELSE frame.filled_qty
           pop == [outstanding_limits EXCEPT ![sym] = NoLimit]
       IN  \E o2 \in AdvanceSet(orders[frame.order_id]) : \E r \in Reports(o2) :
             LET ps == PollStep(r, qty, frame.seen)
                 timeout == ps.res = "continue"
                            /\ frame.waited + LIMIT_POLL_INTERVAL >= LIMIT_FILL_TIMEOUT
             IN  /\ BrokerUpdate(frame.order_id, o2, r)
                 /\ Fill(sym, frame.side, ps.amt)
                 /\ IF Trips(ps.amt)
                    THEN /\ pc' = "shutdown"
                         /\ frame' = [frame EXCEPT !.seen = ps.seen]
                         /\ UNCHANGED outstanding_limits
                    ELSE IF ps.res = "filled"
                    THEN /\ pc' = "leg_done"
                         /\ frame' = [frame EXCEPT !.seen = ps.seen,
                                         !.filled_qty = prior + ps.seen,
                                         !.filled = TRUE, !.fill_status = "FILLED",
                                         !.filled_via = IF first THEN "LIMIT"
                                                        ELSE "REPRICE_LIMIT"]
                         /\ outstanding_limits' = pop
                    ELSE IF ps.res = "failed" \/ timeout
                    THEN /\ pc' = IF first THEN "cancel" ELSE "leg_done"
                         /\ frame' = [frame EXCEPT !.seen = ps.seen,
                                         !.filled_qty = prior + ps.seen,
                                         !.filled = FALSE,
                                         !.fill_status = IF r.status = ""
                                                         THEN "TIMEOUT" ELSE r.status]
                         /\ UNCHANGED outstanding_limits
                    ELSE /\ pc' = pc
                         /\ frame' = [frame EXCEPT !.seen = ps.seen,
                                         !.waited = @ + LIMIT_POLL_INTERVAL]
                         /\ UNCHANGED outstanding_limits
    /\ UNCHANGED <<cfg, now, last_alert_id, killFile, alerts, cur, todo, batch, trace,
                   exitCode>>

\* _submit_order after a failed poll: cancel_order, the status read after it,
\* and the timeout policy
Cancel ==
    /\ UNCHANGED <<dvars, fvars>>
    /\ UNCHANGED <<live_orders, hist>>
    /\ pc = "cancel"
    /\ LET sym == frame.symbol
           id == frame.order_id
       IN  \E o2 \in AdvanceSet(orders[id]), cancelled \in BOOLEAN :
             LET o3 == IF cancelled /\ o2.status = "WORKING"
                       THEN [o2 EXCEPT !.status = "CANCELED"] ELSE o2
             IN  \E r \in Reports(o3) :
                   LET filled_qty == IF r.fq # NoQty
                                     THEN ApplyFilledSeen(frame.qty, r.fq, frame.filled_qty)
                                     ELSE frame.filled_qty
                       amt == filled_qty - frame.filled_qty
                       remaining_qty == RemainingQty(frame.qty, filled_qty)
                       f1 == [frame EXCEPT !.filled_qty = filled_qty, !.seen = filled_qty,
                                           !.cancelled = cancelled,
                                           !.rqty = remaining_qty]
                   IN  /\ BrokerUpdate(id, o3, r)
                       /\ trace' = Append(trace, Ev("cancel_order", sym, frame.side,
                                                    frame.qty, cancelled, frame.leg))
                       /\ Fill(sym, frame.side, amt)
                       /\ IF Trips(amt)
                          THEN /\ pc' = "shutdown"
                               /\ frame' = frame
                               /\ UNCHANGED outstanding_limits
                          ELSE /\ outstanding_limits' =
                                    [outstanding_limits EXCEPT ![sym] =
                                        IF cancelled THEN NoLimit
                                        ELSE [order_id |-> id, since |-> now,
                                              side |-> frame.side, qty |-> frame.qty,
                                              filled_seen |-> filled_qty]]
                               /\ IF remaining_qty > 0 /\ cancelled
                                  THEN /\ pc' = CASE cfg.policy = "REPRICE" -> "reprice"
                                                  [] cfg.policy = "MARKET" -> "fallback"
                                                  [] OTHER -> "leg_done"
                                       /\ frame' = f1
                                  ELSE IF remaining_qty = 0
                                  THEN /\ pc' = "leg_done"
                                       /\ frame' = [f1 EXCEPT !.filled = TRUE,
                                                       !.fill_status = "FILLED"]
                                  ELSE /\ pc' = "leg_done"
                                       /\ frame' = f1
    /\ UNCHANGED <<cfg, now, last_alert_id, killFile, alerts, cur, todo, batch, exitCode>>

\* timeout policy MARKET: a market order for the remaining quantity
Fallback ==
    /\ UNCHANGED <<dvars, fvars>>
    /\ UNCHANGED <<live_orders, hist>>
    /\ pc = "fallback"
    /\ LET sym == frame.symbol IN
       \E accepted \in BOOLEAN :
          /\ trace' = Append(trace, Ev("submit_market", sym, frame.side, frame.rqty,
                                       accepted, frame.leg))
          /\ IF accepted
             THEN /\ Fill(sym, frame.side, frame.rqty)
                  /\ BrokerMarket(sym, frame.side, frame.rqty)
                  /\ \E fr \in FillFractions :
                       IF Trips(frame.rqty)
                       THEN /\ pc' = "shutdown"
                            /\ frame' = [frame EXCEPT !.mkt = frame.side, !.frac = fr]
                       ELSE /\ pc' = "leg_done"
                            /\ frame' = [frame EXCEPT !.filled = TRUE,
                                            !.fill_status = "FILLED",
                                            !.filled_qty = frame.qty,
                                            !.filled_via = "MARKET_FALLBACK",
                                            !.mkt = frame.side, !.frac = fr]
             ELSE /\ Fill(sym, frame.side, 0)
                  /\ UNCHANGED reported
                  /\ pc' = "leg_done"
                  /\ frame' = [frame EXCEPT !.error = TRUE, !.rejects = @ + 1]
    /\ UNCHANGED <<cfg, partial, now, outstanding_limits, last_alert_id, killFile, alerts, orders,
                   cur, todo, batch, exitCode>>

\* timeout policy REPRICE: a second limit order for the remaining quantity
Reprice ==
    /\ UNCHANGED <<dvars, fvars>>
    /\ UNCHANGED <<live_orders, hist>>
    /\ pc = "reprice"
    /\ LET sym == frame.symbol IN
       \/ \* rejected
          /\ trace' = Append(trace, Ev("submit_limit", sym, frame.side, frame.rqty,
                                       FALSE, frame.leg))
          /\ pc' = "leg_done"
          /\ frame' = [frame EXCEPT !.error = TRUE, !.rejects = @ + 1]
          /\ UNCHANGED <<orders, outstanding_limits>>
       \/ \* accepted
          /\ Len(orders) < MaxOrders
          /\ trace' = Append(trace, Ev("submit_limit", sym, frame.side, frame.rqty,
                                       TRUE, frame.leg))
          /\ orders' = Append(orders, NewOrder(sym, frame.side, frame.rqty))
          /\ \E hasId \in BOOLEAN :
               IF hasId
               THEN /\ outstanding_limits' =
                         [outstanding_limits EXCEPT ![sym] =
                             [order_id |-> Len(orders) + 1, since |-> now,
                              side |-> frame.side, qty |-> frame.rqty,
                              filled_seen |-> frame.filled_qty]]
                    /\ pc' = "repoll"
                    /\ frame' = [frame EXCEPT !.order_id = Len(orders) + 1, !.seen = 0,
                                    !.waited = 0]
               ELSE \* no id to poll: the poll runs into its deadline
                    /\ UNCHANGED outstanding_limits
                    /\ pc' = "leg_done"
                    /\ frame' = [frame EXCEPT !.fill_status = "TIMEOUT"]
    /\ UNCHANGED <<cfg, partial, now, positions, trade_timestamps, fills, saved, reported,
                   last_alert_id, killFile, alerts, cur, todo, batch, exitCode>>

\* _submit_order returns to _handle_alert: open after a close that filled
LegDone ==
    /\ UNCHANGED <<dvars, fvars>>
    /\ UNCHANGED hist
    /\ live_orders' = Append(live_orders, OrderRow(cur.id, frame))
    /\ pc = "leg_done"
    /\ cur' = IF frame.leg # "close" THEN cur
               ELSE [cur EXCEPT !.closed = IF frame.filled THEN "FILLED" ELSE "FAILED"]
    /\ IF frame.leg = "close" /\ OpenAfterClose(frame.filled)
       THEN LET o == OpeningOrder(cur.direction)
            IN  /\ pc' = "submit"
                /\ frame' = [NoFrame EXCEPT !.symbol = frame.symbol, !.side = o.side,
                                !.qty = o.qty, !.leg = "open",
                                !.start_pos = positions[frame.symbol]]
       ELSE /\ pc' = "finish"
            /\ frame' = NoFrame
    /\ UNCHANGED <<cfg, partial, now, positions, outstanding_limits, trade_timestamps,
                   last_alert_id, saved, killFile, alerts, orders, reported, todo, batch,
                   trace, fills, exitCode>>

\* ------------------------------------------- _reconcile_outstanding_limit
\* _handle_alert goes on after a reconciliation that does not block
Unblocked(sym) ==
    /\ cur' = [cur EXCEPT !.dec = positions'[sym]]
    /\ Act(sym, cur.direction, positions'[sym])

\* the first status read of the outstanding limit order
Reconcile ==
    /\ UNCHANGED <<dvars, fvars>>
    /\ UNCHANGED <<live_orders, hist>>
    /\ pc = "reconcile"
    /\ LET sym == cur.symbol
           entry == outstanding_limits[sym]
       IN  \E o2 \in AdvanceSet(orders[entry.order_id]) : \E r \in Reports(o2) :
             LET filled_seen == IF r.fq # NoQty /\ entry.qty > 0
                                THEN ApplyFilledSeen(entry.qty, r.fq, entry.filled_seen)
                                ELSE entry.filled_seen
                 amt == filled_seen - entry.filled_seen
                 age == now - entry.since
             IN  /\ BrokerUpdate(entry.order_id, o2, r)
                 /\ Fill(sym, entry.side, amt)
                 /\ IF Trips(amt)
                    THEN /\ pc' = "shutdown"
                         /\ UNCHANGED <<outstanding_limits, cur, frame>>
                    ELSE IF Ended(r.status)
                    THEN /\ outstanding_limits' = [outstanding_limits EXCEPT ![sym] = NoLimit]
                         /\ Unblocked(sym)
                    ELSE /\ outstanding_limits' =
                              [outstanding_limits EXCEPT ![sym].filled_seen = filled_seen]
                         /\ frame' = NoFrame
                         /\ IF age > LIMIT_FILL_TIMEOUT
                            THEN pc' = "reconcile_cancel" /\ cur' = cur
                            ELSE pc' = "finish" /\ cur' = [cur EXCEPT !.blocked = TRUE]
    /\ UNCHANGED <<cfg, now, last_alert_id, killFile, alerts, todo, batch, trace, exitCode>>

\* the outstanding order is older than the timeout: cancel it and read it again
ReconcileCancel ==
    /\ UNCHANGED <<dvars, fvars>>
    /\ UNCHANGED <<live_orders, hist>>
    /\ pc = "reconcile_cancel"
    /\ LET sym == cur.symbol
           entry == outstanding_limits[sym]
           id == entry.order_id
       IN  \E o2 \in AdvanceSet(orders[id]), cancelled \in BOOLEAN :
             LET o3 == IF cancelled /\ o2.status = "WORKING"
                       THEN [o2 EXCEPT !.status = "CANCELED"] ELSE o2
             IN  \E r \in Reports(o3) :
                   LET filled_seen == IF r.fq # NoQty /\ entry.qty > 0
                                      THEN ApplyFilledSeen(entry.qty, r.fq, entry.filled_seen)
                                      ELSE entry.filled_seen
                       amt == filled_seen - entry.filled_seen
                   IN  /\ BrokerUpdate(id, o3, r)
                       /\ trace' = Append(trace, Ev("cancel_order", sym, entry.side,
                                                    entry.qty, cancelled, "reconcile"))
                       /\ Fill(sym, entry.side, amt)
                       /\ IF Trips(amt)
                          THEN /\ pc' = "shutdown"
                               /\ UNCHANGED <<outstanding_limits, cur, frame>>
                          ELSE IF cancelled \/ Ended(r.status)
                          THEN /\ outstanding_limits' =
                                    [outstanding_limits EXCEPT ![sym] = NoLimit]
                               /\ Unblocked(sym)
                          ELSE /\ outstanding_limits' =
                                    [outstanding_limits EXCEPT
                                        ![sym].filled_seen = filled_seen,
                                        ![sym].since = now]
                               /\ frame' = NoFrame
                               /\ pc' = "finish"
                               /\ cur' = [cur EXCEPT !.blocked = TRUE]
    /\ UNCHANGED <<cfg, now, last_alert_id, killFile, alerts, todo, batch, exitCode>>

\* ---------------------------------------------- _engage_emergency_shutdown
RECURSIVE Orderings(_)
\* the orders in which a dict holding the symbols of S may list them
Orderings(S) ==
    IF S = {} THEN {<<>>}
    ELSE UNION {{<<x>> \o q : q \in Orderings(S \ {x})} : x \in S}

\* cancel_all_orders, then the snapshot list(self.positions.items())
Shutdown ==
    /\ UNCHANGED <<dvars, fvars>>
    /\ UNCHANGED <<live_orders, hist>>
    /\ pc = "shutdown"
    /\ \E ok \in (IF cfg.dry_run THEN {TRUE} ELSE BOOLEAN) :
          /\ trace' = Append(trace, Ev("cancel_all_orders", "", "", 0, ok, "shutdown"))
          /\ orders' = IF ok /\ ~cfg.dry_run
                       THEN [i \in 1..Len(orders) |->
                               IF orders[i].status = "WORKING"
                               THEN [orders[i] EXCEPT !.status = "CANCELED"]
                               ELSE orders[i]]
                       ELSE orders
    /\ todo' \in Orderings({s \in Symbols : positions[s] # 0})
    /\ pc' = "flatten"
    /\ frame' = NoFrame
    /\ UNCHANGED <<cfg, partial, now, positions, outstanding_limits, trade_timestamps,
                   last_alert_id, saved, killFile, alerts, reported, cur, batch, fills,
                   exitCode>>

\* _engage_emergency_shutdown: `side = "SELL" if qty > 0 else "COVER"`
FlattenSide(qty) == IF qty > 0 THEN "SELL" ELSE "COVER"

\* the loop over the snapshot: one forced market order per position; after the
\* loop _save_state and SystemExit(1)
Flatten ==
    /\ UNCHANGED <<dvars, fvars>>
    /\ pc = "flatten"
    /\ IF todo = <<>>
       THEN /\ saved' = SaveState(positions, last_alert_id)
            /\ trace' = trace \o <<Ev("save_state", "", "", 0, ~cfg.dry_run, "shutdown"),
                                   Ev("exit", "", "", 1, TRUE, "shutdown")>>
            /\ exitCode' = 1
            /\ pc' = "exited"
            /\ orders' = Archive(orders, [s \in Symbols |-> NoLimit])
            /\ UNCHANGED <<positions, outstanding_limits, trade_timestamps, fills,
                           reported, todo, live_orders, hist>>
       ELSE LET sym == Head(todo)
                qty == positions[sym]
                side == FlattenSide(qty)
                f == [NoFrame EXCEPT !.symbol = sym, !.side = side, !.qty = Abs(qty),
                                     !.leg = "flatten"]
            IN  /\ outstanding_limits' = [outstanding_limits EXCEPT ![sym] = NoLimit]
                /\ UNCHANGED <<exitCode, orders>>
                /\ hist' = [hist EXCEPT !.legs = @ + 1]
                /\ \E accepted \in (IF cfg.dry_run THEN {TRUE} ELSE BOOLEAN) :
                     /\ trace' = Append(trace, Ev("submit_market", sym, side, Abs(qty),
                                                  accepted, "flatten"))
                     /\ IF accepted
                        THEN /\ Fill(sym, side, Abs(qty))
                             /\ BrokerMarket(sym, side, Abs(qty))
                             /\ IF Trips(Abs(qty))
                                THEN /\ pc' = "shutdown"
                                     /\ todo' = <<>>
                                     /\ UNCHANGED live_orders
                                ELSE /\ pc' = "flatten"
                                     /\ todo' = Tail(todo)
                                     /\ live_orders' = Append(live_orders,
                                            OrderRow(-1, [f EXCEPT !.fill_status = "FILLED"]))
                        ELSE /\ Fill(sym, side, 0)
                             /\ UNCHANGED reported
                             /\ pc' = "flatten"
                             /\ todo' = Tail(todo)
                             /\ live_orders' = Append(live_orders,
                                    OrderRow(-1, [f EXCEPT !.fill_status = "FAILED",
                                                           !.error = TRUE]))
    /\ UNCHANGED <<cfg, partial, now, last_alert_id, killFile, alerts, cur, frame, batch>>

\* ------------------------------------------------------ grok.py, on_book
ALERT_THROTTLE_SEC == 60
MIN_IMBALANCE_DURATION_SEC == 10
MIN_ASK_HEAVY == 4
MIN_BID_HEAVY == 4
MIN_VOLUME == 100000
DISABLE_BID_HEAVY == FALSE

ImbalanceRingLen == 2       \* last_imbalance keeps this many entries (200 in grok.py)
MaxStarts == 3              \* times grok.py is started
\* the times at which on_book reads the clock: half the minimum dwell, the
\* minimum dwell, and one throttle period after it
ClockTimes == {0, 5, 10, 60, 70}
\* how alerts are delivered: to the log only (no inline LiveTrader could be
\* built), inline and to the log, inline only (INLINE_DISPATCH_ONLY)
Modes == {"log", "inline_log", "inline_only"}
NoAlertYet == -1            \* `sym not in last_alert`
\* what a book's metrics may be: heavy venues on a side, valid exchanges,
\* volume per minute
VenueCounts == {0, 4}
ValidExchangeCounts == {3, 4}
Volumes == {0, MIN_VOLUME}

\* the detector when grok.py starts
DetectorStartIn(m) ==
    /\ clock = 0
    /\ last_alert = [s \in Symbols |-> NoAlertYet]
    /\ last_imbalance = [s \in Symbols |-> <<>>]
    /\ emitted = <<>>
    /\ grok = [mode |-> m, running |-> TRUE, starts |-> 1, inline_only_next_alert_id |-> 0]
    /\ logged = <<>>
    /\ work = {}
    /\ inline_handled = <<>>
    /\ tail_last_alert_id = 0

\* the detector beside a LiveTrader that is followed alone
DetectorStart == DetectorStartIn("log")

\* on_book: the direction of a book
Direction(bid_heavy_venues, ask_heavy_venues) ==
    IF ~DISABLE_BID_HEAVY /\ bid_heavy_venues >= ask_heavy_venues + 4 THEN "bid-heavy"
    ELSE IF ask_heavy_venues >= bid_heavy_venues + 4 THEN "ask-heavy"
    ELSE "none"

\* deque(maxlen=...).append
RingAppend(ring, e) ==
    IF Len(ring) >= ImbalanceRingLen THEN Append(Tail(ring), e) ELSE Append(ring, e)

\* a faulty variant of ImbalanceDuration that measures from the oldest entry of
\* the ring, whatever its direction
DurationFromOldest(ring, direction, t) ==
    IF ring = <<>> THEN 0 ELSE t - ring[1].ts

\* on_book: now - first_ts, first_ts the oldest entry of the run of `direction`
\* that ends the ring
ImbalanceDuration(ring, direction, t) ==
    LET run == {i \in 1..Len(ring) : \A j \in i..Len(ring) : ring[j].direction = direction}
    IN  IF run = {} THEN 0
        ELSE t - ring[CHOOSE i \in run : \A k \in run : i <= k].ts

\* a faulty variant of ThrottleOpen that never throttles
ThrottleIgnored(sym, t) == TRUE

\* on_book: sym not in last_alert or (now - last_alert[sym]) >= ALERT_THROTTLE_SEC
ThrottleOpen(sym, t) ==
    last_alert[sym] = NoAlertYet \/ t - last_alert[sym] >= ALERT_THROTTLE_SEC

\* time passes between two level-2 book messages
ClockTick ==
    /\ \E t \in ClockTimes : t > clock /\ clock' = t
    /\ UNCHANGED <<last_alert, last_imbalance, emitted, grok, logged, work, inline_handled,
                   tail_last_alert_id>>
    /\ UNCHANGED <<tvars, fvars>>

\* on_book: the id of the next alert, from the inline-only counter or from
\* SELECT IFNULL(MAX(rowid), 0) FROM alerts
NextAlertId ==
    IF grok.mode = "inline_only" THEN grok.inline_only_next_alert_id + 1
    ELSE Len(logged) + 1

\* on_book for one item of a message. With an inline LiveTrader the alert goes
\* to inline_trader_dispatch, which hands process_alert to the executor and then
\* raises TypeError in asyncio.create_task (its argument is a Future, not a
\* coroutine): on_book ends there, before the INSERT and before last_alert is
\* set, and the exception ends grok.py
OnBookItem(sym, bid_heavy_venues, ask_heavy_venues, valid_exchanges, vol_per_min) ==
    LET direction == Direction(bid_heavy_venues, ask_heavy_venues)
        ring == RingAppend(last_imbalance[sym], [ts |-> clock, direction |-> direction])
        imbalance_duration == ImbalanceDuration(ring, direction, clock)
        alert == [id |-> NextAlertId, timestamp |-> clock, symbol |-> sym,
                  direction |-> direction, start |-> grok.starts, mode |-> grok.mode,
                  dispatched |-> grok.mode # "log", logged |-> grok.mode = "log"]
    IN  IF direction = "none"
        THEN UNCHANGED <<last_alert, last_imbalance, emitted, grok, logged, work>>
        ELSE /\ last_imbalance' = [last_imbalance EXCEPT ![sym] = ring]
             /\ IF /\ imbalance_duration >= MIN_IMBALANCE_DURATION_SEC
                   /\ valid_exchanges >= Max(MIN_ASK_HEAVY, MIN_BID_HEAVY)
                   /\ vol_per_min >= MIN_VOLUME
                   /\ ThrottleOpen(sym, clock)
                THEN /\ emitted' = Append(emitted, alert)
                     /\ IF grok.mode = "log"
                        THEN /\ logged' = Append(logged, [id |-> alert.id, symbol |-> sym,
                                                          direction |-> direction])
                             /\ last_alert' = [last_alert EXCEPT ![sym] = clock]
                             /\ UNCHANGED <<grok, work>>
                        ELSE /\ work' = work \cup {[id |-> alert.id, symbol |-> sym,
                                                     direction |-> direction]}
                             /\ grok' = [grok EXCEPT
                                           !.running = FALSE,
                                           !.inline_only_next_alert_id =
                                               IF grok.mode = "inline_only"
                                               THEN alert.id ELSE @]
                             /\ UNCHANGED <<logged, last_alert>>
                ELSE UNCHANGED <<last_alert, emitted, grok, logged, work>>

\* on_book, for whatever item the stream delivers
OnBook ==
    /\ grok.running
    /\ \E sym \in cfg.symbols, bid_heavy_venues \in VenueCounts, ask_heavy_venues \in VenueCounts,
          valid_exchanges \in ValidExchangeCounts, vol_per_min \in Volumes :
          OnBookItem(sym, bid_heavy_venues, ask_heavy_venues, valid_exchanges, vol_per_min)
    /\ UNCHANGED <<clock, inline_handled, tail_last_alert_id>>
    /\ UNCHANGED <<tvars, fvars>>

\* what a book tick may yield: no candidate, or a candidate direction
Candidates == {"none", "bid-heavy", "ask-heavy"}
NoTickYet == -1             \* no tick of the symbol gave this candidate
\* no tick is recorded
NoTicks == ticks = [s \in Symbols |-> [c \in Candidates |-> NoTickYet]]

\* on_book, and beside it a record of when the symbol's book last gave each
\* candidate
OnBookSeen ==
    /\ grok.running
    /\ \E sym \in cfg.symbols, bid_heavy_venues \in VenueCounts, ask_heavy_venues \in VenueCounts,
          valid_exchanges \in ValidExchangeCounts, vol_per_min \in Volumes :
          /\ OnBookItem(sym, bid_heavy_venues, ask_heavy_venues, valid_exchanges, vol_per_min)
          /\ ticks' = [ticks EXCEPT
                          ![sym][Direction(bid_heavy_venues, ask_heavy_venues)] = clock]
    /\ UNCHANGED <<clock, inline_handled, tail_last_alert_id>>
    /\ UNCHANGED <<tvars, fd, rp, pq, l2, sim, rl, mk>>

\* a worker thread of the executor runs the process_alert call it was handed
\* (the call itself is followed step by step in Spec)
InlineWorker ==
    /\ \E w \in work :
          /\ work' = work \ {w}
          /\ inline_handled' = Append(inline_handled, w)
    /\ UNCHANGED <<clock, last_alert, last_imbalance, emitted, grok, logged,
                   tail_last_alert_id>>
    /\ UNCHANGED <<tvars, fvars>>

\* grok.py is started again once the process has ended (the executor's threads
\* are joined first): the in-memory state is new, the counter of inline-only ids
\* is read from the alerts table
GrokStart ==
    /\ ~grok.running
    /\ work = {}
    /\ grok.starts < MaxStarts
    /\ \E m \in Modes :
          grok' = [mode |-> m, running |-> TRUE, starts |-> grok.starts + 1,
                   inline_only_next_alert_id |-> Len(logged)]
    /\ last_alert' = [s \in Symbols |-> NoAlertYet]
    /\ last_imbalance' = [s \in Symbols |-> <<>>]
    /\ UNCHANGED <<clock, emitted, logged, work, inline_handled, tail_last_alert_id>>
    /\ UNCHANGED <<tvars, fvars>>

\* the operator stops grok.py (KeyboardInterrupt)
GrokStop ==
    /\ grok.running
    /\ grok.starts < MaxStarts
    /\ grok' = [grok EXCEPT !.running = FALSE]
    /\ UNCHANGED <<clock, last_alert, last_imbalance, emitted, logged, work, inline_handled,
                   tail_last_alert_id>>
    /\ UNCHANGED <<tvars, fvars>>

\* a LiveTrader that tails the detector's log handles the rows above its
\* last_alert_id, in ascending order
TailPoll ==
    /\ NewRows(tail_last_alert_id, Len(logged)) # <<>>
    /\ tail_last_alert_id' = Len(logged)
    /\ UNCHANGED <<clock, last_alert, last_imbalance, emitted, grok, logged, work,
                   inline_handled>>
    /\ UNCHANGED <<tvars, fvars>>

\* ------------------------------------------- _apply_filled_delta, alone
MaxQty == 3                 \* the largest order quantity fed to _apply_filled_delta
MaxReports == 3             \* status replies fed for one order

\* no order is being followed
NoFill == [qty |-> 0, seen0 |-> 0, seen |-> 0, prev |-> 0, last |-> 0, delta |-> 0,
           recorded |-> 0, n |-> 0]

\* one order of quantity qty whose filled_seen the caller holds at seen0 (0 in
\* _poll_limit_fill, the polled quantity after the cancel, the entry's
\* filled_seen in the reconciliation)
FillInputs ==
    UNION {{[NoFill EXCEPT !.qty = q, !.seen0 = s, !.seen = s, !.prev = s] : s \in 0..q} :
              q \in 1..MaxQty}

\* _apply_filled_delta: the quantity handed to _record_fill (0: no fill recorded)
FilledDelta(qty, filled_qty, filled_qty_seen) ==
    IF filled_qty < filled_qty_seen THEN 0
    ELSE LET delta == Min(filled_qty, qty) - filled_qty_seen
         IN  IF delta > 0 THEN delta ELSE 0

\* the broker reports a filled quantity (which may fall back, or exceed the
\* order) and the caller keeps what _apply_filled_delta returns
FeedReport ==
    /\ fd.n < MaxReports
    /\ \E filled_qty \in 0..(fd.qty + 1) :
          fd' = [fd EXCEPT !.prev = fd.seen,
                           !.last = filled_qty,
                           !.seen = ApplyFilledSeen(fd.qty, filled_qty, fd.seen),
                           !.delta = FilledDelta(fd.qty, filled_qty, fd.seen),
                           !.recorded = @ + FilledDelta(fd.qty, filled_qty, fd.seen),
                           !.n = @ + 1]
    /\ UNCHANGED <<tvars, dvars, rp, gvars>>

\* ------------------------------------------ the alert log, applied twice
MaxLog == 3                 \* alerts in the replayed log
MaxReplayTime == 10803      \* the replay's clock stops here
\* time between two alerts of the replayed log: none, or more than the window
ReplaySteps == {RATE_WINDOW_SEC + 1}

AlertKinds == {[symbol |-> s, direction |-> d] : s \in Symbols, d \in Directions}

NoReplay == [log |-> <<>>, positions |-> [s \in Symbols |-> 0], trade_timestamps |-> <<>>,
             t |-> 0, i |-> 1, pass |-> 0, first |-> [s \in Symbols |-> 0],
             exited |-> FALSE, moved |-> FALSE]

\* a LiveTrader that starts with the positions of its state file and reads a log
\* whose rows all lie after its last_alert_id
ReplayInputs ==
    {[NoReplay EXCEPT !.log = l, !.positions = p, !.pass = 1] :
        l \in UNION {[1..n -> AlertKinds] : n \in 1..MaxLog},
        p \in [Symbols -> {0, POSITION_SIZE, -SHORT_SIZE}]}

RECURSIVE RecordFilled(_, _, _, _, _)
RECURSIVE ShutdownFilled(_, _)
\* _record_fill at time t, the rate limit included (st: positions,
\* trade_timestamps, exited)
RecordFilled(st, sym, side, qty, t) ==
    LET st1 == [st EXCEPT !.positions = ApplyPositionDelta(@, sym, SideDelta(side, qty)),
                          !.trade_timestamps = PrunedTimestamps(@, t)]
    IN  IF RateExceeded(st1.trade_timestamps) THEN ShutdownFilled(st1, t) ELSE st1

\* _engage_emergency_shutdown when every flattening order fills: each of them is
\* recorded as a fill too, and SystemExit ends the process
ShutdownFilled(st, t) ==
    LET held == {s \in Symbols : st.positions[s] # 0}
    IN  IF held = {} THEN [st EXCEPT !.exited = TRUE]
        ELSE LET sym == CHOOSE s \in held : TRUE
                 st1 == RecordFilled(st, sym, FlattenSide(st.positions[sym]),
                                     Abs(st.positions[sym]), t)
             IN  IF st1.exited THEN st1 ELSE ShutdownFilled(st1, t)

\* _handle_alert for alert a at time t when every order it submits fills
HandleFilled(st, a, t) ==
    LET d == HandleDecision(a.direction, st.positions[a.symbol])
    IN  IF d.act = "skip" THEN st
        ELSE LET st1 == RecordFilled(st, a.symbol, d.side, d.qty, t)
                 o == OpeningOrder(a.direction)
             IN  IF d.act = "open" \/ st1.exited \/ ~OpenAfterClose(TRUE) THEN st1
                 ELSE RecordFilled(st1, a.symbol, o.side, o.qty, t)

\* run() hands the next row of the log to process_alert
ReplayAlert ==
    /\ rp.pass \in {1, 2}
    /\ ~rp.exited
    /\ rp.i <= Len(rp.log)
    /\ LET st == HandleFilled([positions |-> rp.positions,
                               trade_timestamps |-> rp.trade_timestamps,
                               exited |-> FALSE], rp.log[rp.i], rp.t)
       IN  rp' = [rp EXCEPT !.positions = st.positions,
                            !.trade_timestamps = st.trade_timestamps,
                            !.exited = st.exited,
                            !.i = @ + 1,
                            !.moved = @ \/ (rp.pass = 2 /\ st.positions # rp.positions)]
    /\ UNCHANGED <<tvars, dvars, fd, gvars>>

\* the same rows are read again: by the same LiveTrader, or by one that started
\* from the state file the first left (its trade_timestamps are empty)
ReplayAgain ==
    /\ rp.pass = 1
    /\ ~rp.exited
    /\ rp.i > Len(rp.log)
    /\ \E restarted \in BOOLEAN :
          rp' = [rp EXCEPT !.pass = 2, !.i = 1, !.first = rp.positions,
                           !.trade_timestamps = IF restarted THEN <<>> ELSE @]
    /\ UNCHANGED <<tvars, dvars, fd, gvars>>

\* time passes between two alerts
ReplayTick ==
    /\ rp.pass \in {1, 2}
    /\ \E d \in ReplaySteps :
          /\ rp.t + d <= MaxReplayTime
          /\ rp' = [rp EXCEPT !.t = @ + d]
    /\ UNCHANGED <<tvars, dvars, fd, gvars>>

\* ------------------------------------- _reference_price, _aggressive_limit_price
\* prices are counted in 1/10000 of a dollar, the precision round(adjusted, 4) keeps
ONE_CENT == 100             \* max(..., 0.01)
BPS_DENOMINATOR == 10000    \* limit_slippage_bps / 10000.0
Missing == -1               \* a quote field that is absent, None, 0 or ""
BadText == -2               \* a quote field that float() does not accept
\* the quote of test_reference_price_refreshes_from_quote: bid 11.9, ask 12.1,
\* last 12.0; the alert priced 10.0
TestBid == 119000
TestAsk == 121000
TestLast == 120000
TestAlertPrice == 100000
\* what a quote field may hold, and the alert's price: half a cent, four cents,
\* and the prices of the test
QuoteBids == {Missing, BadText, 50, 400, TestBid}
QuoteAsks == {Missing, BadText, 60, 400, TestAsk}
QuoteLasts == {Missing, 55, TestLast}
AlertPrices == {400, TestAlertPrice}
Sides == {"BUY", "COVER", "SELL", "SHORT"}
SlippageBps == {10, 50}     \* LIVE_LIMIT_SLIPPAGE_BPS (10 by default)

\* no price is being computed
NoPriceQuery == [step |-> "none", has_quote |-> FALSE, bid |-> Missing, ask |-> Missing,
                 last |-> Missing, alert_price |-> 0, side |-> "", bps |-> 0,
                 ref |-> 0, limit |-> 0]
NoQuery == pq = NoPriceQuery

\* the calls _submit_order may make: a quote (or none), an alert price, a side
PriceInputs ==
    {[NoPriceQuery EXCEPT !.step = "start", !.has_quote = h, !.bid = b, !.ask = a,
                          !.last = l, !.alert_price = p, !.side = sd, !.bps = bp] :
        h \in BOOLEAN, b \in QuoteBids, a \in QuoteAsks, l \in QuoteLasts,
        p \in AlertPrices, sd \in Sides, bp \in SlippageBps}

\* float(x) of a quote field: None when the field is absent or float() raises
FloatOf(x) == IF x \in {Missing, BadText} THEN Missing ELSE x

\* float(bid + ask) / 2, None when a field is absent or the sum raises
Midpoint(bid, ask) ==
    IF bid \in {Missing, BadText} \/ ask \in {Missing, BadText} THEN Missing
    ELSE (bid + ask) \div 2

\* a faulty variant of ReferencePrice that takes the last price first
ReferencePriceLastFirst(q) ==
    IF q.has_quote /\ FloatOf(q.last) # Missing THEN FloatOf(q.last)
    ELSE IF q.has_quote /\ q.side \in {"BUY", "COVER"} /\ FloatOf(q.ask) # Missing
    THEN FloatOf(q.ask)
    ELSE IF q.has_quote /\ q.side \in {"SELL", "SHORT"} /\ FloatOf(q.bid) # Missing
    THEN FloatOf(q.bid)
    ELSE q.alert_price

\* _reference_price: the side's quote, else the midpoint, else the last price,
\* else the alert's price
ReferencePrice(q) ==
    IF ~q.has_quote THEN q.alert_price
    ELSE LET ref1 == IF q.side \in {"BUY", "COVER"} THEN FloatOf(q.ask)
                     ELSE IF q.side \in {"SELL", "SHORT"} THEN FloatOf(q.bid)
                     ELSE Missing
             ref2 == IF ref1 = Missing THEN Midpoint(q.bid, q.ask) ELSE ref1
             ref3 == IF ref2 = Missing THEN FloatOf(q.last) ELSE ref2
         IN  IF ref3 # Missing THEN ref3 ELSE q.alert_price

\* round(n / d): to the nearest integer, a tie to the even one
RoundHalfEven(n, d) ==
    LET q == n \div d
        r == n % d
    IN  IF 2 * r < d THEN q
        ELSE IF 2 * r > d THEN q + 1
        ELSE IF q % 2 = 0 THEN q ELSE q + 1

\* _aggressive_limit_price
AggressiveLimitPrice(side, reference_price, bps) ==
    IF reference_price <= 0 THEN reference_price
    ELSE LET slip == Max(bps, 0)
             factor == IF side \in {"BUY", "COVER"} THEN BPS_DENOMINATOR + slip
                       ELSE BPS_DENOMINATOR - slip
         IN  Max(RoundHalfEven(reference_price * factor, BPS_DENOMINATOR), ONE_CENT)

\* _submit_order: reference_price = self._reference_price(...)
TakeReferencePrice ==
    /\ pq.step = "start"
    /\ pq' = [pq EXCEPT !.step = "ref", !.ref = ReferencePrice(pq)]
    /\ UNCHANGED <<tvars, dvars, fd, rp, l2, sim, ticks, rl, mk>>

\* _submit_order with limit orders preferred: effective_price =
\* self._aggressive_limit_price(...)
TakeLimitPrice ==
    /\ pq.step = "ref"
    /\ pq' = [pq EXCEPT !.step = "limit",
                        !.limit = AggressiveLimitPrice(pq.side, pq.ref, pq.bps)]
    /\ UNCHANGED <<tvars, dvars, fd, rp, l2, sim, ticks, rl, mk>>

\* ------------------------------------------- the level-2 book (grok.py)
MAX_RANGE_CENTS == 1
NotANumber == -3            \* float("nan"), and a text float() reads as nan
Infinite == -4              \* float("inf"), and a text float() reads as inf
InvalidPrice == -100        \* a price of -1.00

\* EXCHANGE_MAP: the venue codes Schwab sends, and their readable names
EXCHANGE_MAP ==
    [NYSE |-> "NYSE", MEMX |-> "MEMX", IEXG |-> "IEX", NSDQ |-> "NASDAQ",
     NASDAQ |-> "NASDAQ", ARCX |-> "NYSE_ARCA", EDGX |-> "CBOE_EDGX", MIAX |-> "MIAX",
     BATX |-> "CBOE_BZX", BATY |-> "CBOE_BYX", MWSE |-> "MIAX_SAPPHIRE",
     EDGA |-> "CBOE_EDGA", AMEX |-> "NYSE_AMEX", CINN |-> "CINCINNATI", BOSX |-> "BOX",
     PHLX |-> "NASDAQ_PHLX"]

\* what a payload may hold. A field is the first truthy value of its numeric and
\* its named key (Missing when neither is); prices are in cents. The first bid
\* level carries the fields a feed may get wrong, the other levels are well formed.
LevelPrices == {Missing, NotANumber, InvalidPrice, 29, 1000}
OrderExchanges == {"NYSE", "nsdq", "XXXX"}
OrderVolumes == {Missing, 0, 100, Infinite}
BidPrices == {29, 1000}
AskPrices == {30, 1001, 1005}
BookVenues == {"NYSE", "MEMX"}
BidVolume == 100
AskVolumes == {70, 300}
MaxLevels == 2

FirstBidLevels ==
    [price : LevelPrices,
     orders : {<<>>} \cup {<<[ex |-> e, vol |-> v]>> : e \in OrderExchanges,
                                                    v \in OrderVolumes}]
MoreBidLevels ==
    [price : BidPrices, orders : {<<[ex |-> e, vol |-> BidVolume]>> : e \in BookVenues}]
AskLevels ==
    [price : AskPrices,
     orders : {<<[ex |-> e, vol |-> v]>> : e \in BookVenues, v \in AskVolumes}]

UpTo(levels, n) == UNION {[1..k -> levels] : k \in 0..n}

BidSides ==
    {<<>>} \cup {<<first>> \o more : first \in FirstBidLevels,
                                     more \in UpTo(MoreBidLevels, MaxLevels - 1)}

NoMetrics ==
    [total_bids |-> 0, total_asks |-> 0, ask_to_bid_ratio |-> <<0, 0>>,
     bid_to_ask_ratio |-> <<0, 0>>, ask_heavy_venues |-> 0, bid_heavy_venues |-> 0,
     per_venue |-> <<>>, valid_exchanges |-> 0]
NoRows == [BIDS |-> <<>>, ASKS |-> <<>>]
\* no payload is being read
NoL2 == [step |-> "none", bids |-> <<>>, asks |-> <<>>, raised |-> FALSE,
         book |-> NoRows, metrics |-> NoMetrics]
NoPayload == l2 = NoL2

\* the payloads the stream may deliver
Payloads ==
    {[NoL2 EXCEPT !.step = "payload", !.bids = b, !.asks = a] :
        b \in BidSides, a \in UpTo(AskLevels, MaxLevels)}

\* str.upper() on the venue codes of the payloads
Upper(ex) == IF ex = "nsdq" THEN "NSDQ" ELSE ex

\* parse_entries: ex = (...).upper(); ex = "NASDAQ" if ex == "NSDQ" else ex
ExchangeOf(order) == IF Upper(order.ex) = "NSDQ" THEN "NASDAQ" ELSE Upper(order.ex)

\* parse_entries: not (not ex or ex not in EXCHANGE_MAP)
ExchangeAccepted(ex) == ex # "" /\ ex \in DOMAIN EXCHANGE_MAP

\* parse_entries: the level's price is there, float() reads it, and price_f <= 0
\* is false: nan compares false with everything, and is kept
PriceAccepted(price) ==
    /\ price \notin {Missing, BadText}
    /\ (price = NotANumber \/ price = Infinite \/ price > 0)

\* parse_entries: int(float(vol)) raises OverflowError for an infinite volume, and
\* only TypeError and ValueError are caught
VolumeRaises(vol) == vol = Infinite

\* parse_entries: int(float(vol)) has a value (int(nan) is a ValueError) and it is
\* positive
VolumeAccepted(vol) ==
    vol \notin {Missing, BadText, NotANumber, Infinite} /\ vol > 0

\* parse_entries, the loop over a level's orders; nothing raises here
RECURSIVE OrderRows(_, _)
OrderRows(level_orders, price_f) ==
    IF level_orders = <<>> THEN <<>>
    ELSE LET order == Head(level_orders)
             rest == OrderRows(Tail(level_orders), price_f)
         IN  IF ExchangeAccepted(ExchangeOf(order)) /\ VolumeAccepted(order.vol)
             THEN <<[EX |-> ExchangeOf(order), SIZE |-> order.vol,
                     PRICE |-> price_f]>> \o rest
             ELSE rest

\* parse_entries, the loop over the levels
RECURSIVE ParseEntries(_)
ParseEntries(entries) ==
    IF entries = <<>> THEN <<>>
    ELSE LET level == Head(entries)
         IN  IF PriceAccepted(level.price)
             THEN OrderRows(level.orders, level.price) \o ParseEntries(Tail(entries))
             ELSE ParseEntries(Tail(entries))

\* parse_entries is left by an exception: an order of an accepted level, its venue
\* accepted, has a volume int(float()) cannot convert
EntriesRaise(entries) ==
    \E i \in DOMAIN entries :
        /\ PriceAccepted(entries[i].price)
        /\ \E j \in DOMAIN entries[i].orders :
               /\ ExchangeAccepted(ExchangeOf(entries[i].orders[j]))
               /\ VolumeRaises(entries[i].orders[j].vol)

\* _flatten_l2(it)
FlattenL2 ==
    /\ l2.step = "payload"
    /\ IF EntriesRaise(l2.bids) \/ EntriesRaise(l2.asks)
       THEN l2' = [l2 EXCEPT !.step = "raised", !.raised = TRUE]
       ELSE l2' = [l2 EXCEPT !.step = "book",
                             !.book = [BIDS |-> ParseEntries(l2.bids),
                                       ASKS |-> ParseEntries(l2.asks)]]
    /\ UNCHANGED <<tvars, dvars, fd, rp, pq, sim, ticks, rl, mk>>

\* float(c / 100) - c / 100 for a price of c cents, in units of 10^-18 dollars:
\* the error of the binary64 value nearest to the decimal price
FloatError(price) ==
    CASE price = 29 -> -20
      [] price = 30 -> -11
      [] price = 1000 -> 0
      [] price = 1001 -> -213
      [] price = 1005 -> 711
      [] OTHER -> 0

\* process_book: a row counts when size > 0 and price > 0 (false for nan)
Counted(rows) ==
    SelectSeq(rows, LAMBDA row : row.SIZE > 0 /\ row.PRICE > 0)

RowsAt(rows, ex) == SelectSeq(Counted(rows), LAMBDA row : row.EX = ex)

\* venue_cells[ex][side]
RECURSIVE SizeSum(_)
SizeSum(rows) == IF rows = <<>> THEN 0 ELSE Head(rows).SIZE + SizeSum(Tail(rows))

\* venue_prices[ex][side]
PricesOf(rows) == {rows[i].PRICE : i \in DOMAIN rows}

MinOf(S) == CHOOSE x \in S : \A y \in S : x <= y
MaxOf(S) == CHOOSE x \in S : \A y \in S : x >= y

\* spread_cents = (min(ask_prices) - max(bid_prices)) * 100.0, as the whole cents
\* between the decimal prices and what the binary64 prices add to them
SpreadCents(bid_prices, ask_prices) ==
    <<MinOf(ask_prices) - MaxOf(bid_prices),
      FloatError(MinOf(ask_prices)) - FloatError(MaxOf(bid_prices))>>

\* spread_cents <= limit
SpreadAtMost(spread_cents, limit) ==
    spread_cents[1] < limit \/ (spread_cents[1] = limit /\ spread_cents[2] <= 0)

\* process_book: the keys of valid_venues
ValidVenues(book) ==
    {ex \in {book.BIDS[i].EX : i \in DOMAIN book.BIDS}
              \cup {book.ASKS[i].EX : i \in DOMAIN book.ASKS} :
        /\ RowsAt(book.BIDS, ex) # <<>>
        /\ RowsAt(book.ASKS, ex) # <<>>
        /\ SpreadAtMost(SpreadCents(PricesOf(RowsAt(book.BIDS, ex)),
                                    PricesOf(RowsAt(book.ASKS, ex))),
                        MAX_RANGE_CENTS)}

RECURSIVE SumOver(_, _)
SumOver(S, f) ==
    IF S = {} THEN 0
    ELSE LET x == CHOOSE y \in S : TRUE IN f[x] + SumOver(S \ {x}, f)

\* process_book(book, sym)
BookMetrics(book) ==
    LET per_venue == [ex \in ValidVenues(book) |->
                         <<SizeSum(RowsAt(book.BIDS, ex)), SizeSum(RowsAt(book.ASKS, ex))>>]
        total_bids == SumOver(DOMAIN per_venue, [ex \in DOMAIN per_venue |-> per_venue[ex][1]])
        total_asks == SumOver(DOMAIN per_venue, [ex \in DOMAIN per_venue |-> per_venue[ex][2]])
    IN  [total_bids |-> total_bids,
         total_asks |-> total_asks,
         ask_to_bid_ratio |-> <<total_asks, total_bids>>,
         bid_to_ask_ratio |-> <<total_bids, total_asks>>,
         ask_heavy_venues |->
             Cardinality({ex \in DOMAIN per_venue : per_venue[ex][2] > per_venue[ex][1]}),
         bid_heavy_venues |->
             Cardinality({ex \in DOMAIN per_venue : per_venue[ex][1] > per_venue[ex][2]}),
         per_venue |-> per_venue,
         valid_exchanges |-> Cardinality(DOMAIN per_venue)]

\* on_book: metrics = process_book(_flatten_l2(it), sym)
ProcessBook ==
    /\ l2.step = "book"
    /\ l2' = [l2 EXCEPT !.step = "metrics", !.metrics = BookMetrics(l2.book)]
    /\ UNCHANGED <<tvars, dvars, fd, rp, pq, sim, ticks, rl, mk>>


\* ------------------------------------- the simulated executor (simulator.py)
\* quantities are in millionths of a share (_compute_fill fills at least 1e-6),
\* probabilities in percent, prices in half dollars
MIN_FILL == 1               \* max(quantity * probability, 1e-6)
FULL_FILL_PERCENT == 95     \* probability >= 0.95
PERCENT == 100
\* the orders of test_simulator_executor.py: 40 shares at 24.5 with the price at
\* 25; and an order for 0.3 share, and one for nothing
TestQuantity == 40000000
FractionalQuantity == 300000
SimLimitPrice == 49
SimCurrentPrice == 50
OrderQuantities == {0, FractionalQuantity, TestQuantity}
OrderTypes == {"MARKET", "LIMIT"}
FillProbabilities == {10, 50, 95, 100}
MaxPolls == 3
TerminalStatuses == {"FILLED", "CANCELLED", "REJECTED"}

\* a binary64 quantity: the millionths of a share of its decimal value, and the
\* units in the last place it lies above that value
Exactly(quantity) == <<quantity, 0>>

\* no executor is followed
NoOrder ==
    [step |-> "none", order_type |-> "", quantity |-> 0, limit_price |-> 0,
     status |-> "", filled_quantity |-> Exactly(0), avg_fill_price |-> 0,
     pending_probability |-> 0, polls |-> 0, last_call |-> "", returned |-> FALSE]
NoExecutor == sim = NoOrder

\* the orders a caller may place
OrderInputs ==
    {[NoOrder EXCEPT !.step = "new", !.order_type = ot, !.quantity = q,
                     !.limit_price = IF ot = "LIMIT" THEN SimLimitPrice ELSE 0] :
        ot \in OrderTypes, q \in OrderQuantities}

\* _compute_fill(quantity, fill, probability); math.isclose(..., rel_tol=1e-9) is
\* equality at a millionth of a share
ComputeFill(quantity, fill, probability) ==
    IF ~fill THEN [fill_quantity |-> 0, status |-> "PENDING"]
    ELSE LET fill_quantity ==
                 Min(quantity,
                     IF probability >= FULL_FILL_PERCENT THEN quantity
                     ELSE Max((quantity * probability) \div PERCENT, MIN_FILL))
         IN  [fill_quantity |-> fill_quantity,
              status |-> IF fill_quantity = quantity THEN "FILLED"
                         ELSE "PARTIALLY_FILLED"]

\* place_order(symbol, side, quantity, order_type, limit_price)
PlaceOrder ==
    /\ sim.step = "new"
    /\ IF sim.quantity <= 0
       THEN sim' = [sim EXCEPT !.step = "raised", !.last_call = "place_order"]
       ELSE IF sim.order_type = "MARKET"
       THEN sim' = [sim EXCEPT !.step = "tracked", !.status = "FILLED",
                               !.filled_quantity = Exactly(sim.quantity),
                               !.avg_fill_price = SimCurrentPrice,
                               !.last_call = "place_order"]
       ELSE \E fill \in BOOLEAN, probability \in FillProbabilities :
                LET computed == ComputeFill(sim.quantity, fill, probability)
                IN  sim' = [sim EXCEPT
                               !.step = "tracked",
                               !.status = computed.status,
                               !.filled_quantity = Exactly(computed.fill_quantity),
                               !.avg_fill_price = IF computed.fill_quantity > 0
                                                  THEN sim.limit_price ELSE 0,
                               !.pending_probability = probability,
                               !.last_call = "place_order"]
    /\ UNCHANGED <<tvars, dvars, fd, rp, pq, l2, ticks, rl, mk>>

\* _TrackedOrder.remaining_quantity()
RemainingQuantity(tracked) == Max(0, tracked.quantity - tracked.filled_quantity[1])

\* tracked.result.filled_quantity + fill_quantity in binary64: 0.03 + 0.27 is
\* 0.30000000000000004, one unit in the last place above 0.3; the other sums of
\* the quantities above are the binary64 values of their decimal sums
FloatSum(filled_quantity, fill_quantity) ==
    <<filled_quantity + fill_quantity,
      IF filled_quantity = 30000 /\ fill_quantity = 270000 THEN 1 ELSE 0>>

\* new_filled >= tracked.quantity
AtLeast(new_filled, quantity) ==
    new_filled[1] > quantity \/ (new_filled[1] = quantity /\ new_filled[2] >= 0)

\* _attempt_limit_fill(tracked), the market model answering (fill, probability)
AttemptLimitFill(tracked, fill, probability) ==
    LET remaining == RemainingQuantity(tracked)
        computed == ComputeFill(remaining, fill, probability)
        new_filled == FloatSum(tracked.filled_quantity[1], computed.fill_quantity)
        new_status == IF AtLeast(new_filled, tracked.quantity) THEN "FILLED"
                      ELSE IF computed.status = "FILLED" THEN "PARTIALLY_FILLED"
                      ELSE computed.status
        prior_total == tracked.avg_fill_price * tracked.filled_quantity[1]
        new_total == prior_total + tracked.limit_price * computed.fill_quantity
    IN  IF remaining <= 0 THEN tracked
        ELSE IF ~fill THEN [tracked EXCEPT !.pending_probability = probability]
        ELSE [tracked EXCEPT !.status = new_status,
                             !.filled_quantity = new_filled,
                             !.avg_fill_price = new_total \div new_filled[1],
                             !.pending_probability = probability]

\* a faulty variant of GetOrderStatus that goes on filling an order that is final
GetOrderStatusAnyStatus ==
    /\ sim.step = "tracked"
    /\ sim.polls < MaxPolls
    /\ IF sim.order_type = "LIMIT"
       THEN \E fill \in BOOLEAN, probability \in FillProbabilities :
                sim' = [AttemptLimitFill(sim, fill, probability) EXCEPT
                           !.polls = @ + 1, !.last_call = "get_order_status"]
       ELSE sim' = [sim EXCEPT !.polls = @ + 1, !.last_call = "get_order_status"]
    /\ UNCHANGED <<tvars, dvars, fd, rp, pq, l2, ticks, rl, mk>>

\* get_order_status(order_id) of the tracked order
GetOrderStatus ==
    /\ sim.step = "tracked"
    /\ sim.polls < MaxPolls
    /\ IF sim.status \notin TerminalStatuses /\ sim.order_type = "LIMIT"
       THEN \E fill \in BOOLEAN, probability \in FillProbabilities :
                sim' = [AttemptLimitFill(sim, fill, probability) EXCEPT
                           !.polls = @ + 1, !.last_call = "get_order_status"]
       ELSE sim' = [sim EXCEPT !.polls = @ + 1, !.last_call = "get_order_status"]
    /\ UNCHANGED <<tvars, dvars, fd, rp, pq, l2, ticks, rl, mk>>

\* cancel_order(order_id) of the tracked order; it returns True
CancelOrder ==
    /\ sim.step = "tracked"
    /\ IF sim.status \in TerminalStatuses
       THEN sim' = [sim EXCEPT !.last_call = "cancel_order", !.returned = TRUE]
       ELSE sim' = [sim EXCEPT !.status = "CANCELLED", !.last_call = "cancel_order",
                               !.returned = TRUE]
    /\ UNCHANGED <<tvars, dvars, fd, rp, pq, l2, ticks, rl, mk>>

\* ------------------------------------------------------- specification
Next ==
    \/ Tick
    \/ CreateKillFile
    \/ AppendAlert
    \/ BrokerFill
    \/ InlineAlert
    \/ RunPoll
    \/ Return
    \/ Reconcile
    \/ ReconcileCancel
    \/ Submit
    \/ Market
    \/ Poll
    \/ Cancel
    \/ Fallback
    \/ Reprice
    \/ LegDone
    \/ Shutdown
    \/ Flatten
    \/ Stop
    \/ Restart

\* ------------------------------------------------------ LiveTrader.run
\* the sleeps of run(), in hundredths of a second
MIN_SLEEP == 5              \* min_sleep = 0.05
MTIME_PROBE == 1            \* mtime_probe = 0.01
MAX_SLEEP_FLOOR == 200      \* the 2.0 of `max(self.poll_interval, 2.0)`
\* LIVE_POLL_INTERVAL: its default of 1 s, and 3 s
PollIntervals == {100, 300}

\* max_sleep = max(self.poll_interval, 2.0)
MaxSleep(poll_interval) == Max(poll_interval, MAX_SLEEP_FLOOR)

\* a back-off that goes on to twice max_sleep
TargetSleepTwice(idle_sleep, max_sleep) == Min(idle_sleep * 2, 2 * max_sleep)

\* target_sleep = min(idle_sleep * 2, max_sleep)
TargetSleep(idle_sleep, max_sleep) == Min(idle_sleep * 2, max_sleep)

\* run() is not followed. step: where the loop stands; snap: db_mtime_snapshot,
\* as the number of rows the log had when it was taken; late: rows were
\* appended after the SELECT and before the snapshot; delay: how long the
\* oldest row not yet fetched has been in the log, at most
NoLoop == [step |-> "none", poll_interval |-> 0, idle_sleep |-> 0, target_sleep |-> 0,
           snap |-> 0, late |-> FALSE, delay |-> 0]
NoRun == rl = NoLoop

\* run() before its loop: `idle_sleep = min_sleep`
LoopStart(poll_interval) ==
    [NoLoop EXCEPT !.step = "select", !.poll_interval = poll_interval,
                   !.idle_sleep = MIN_SLEEP]

\* the top of the loop: kill switch, SELECT, and process_alert for the first row
\* (with rows run() sets idle_sleep = min_sleep once they are handled, and does
\* not read it before: it is set here)
RunSelect ==
    /\ UNCHANGED <<dvars, fd, rp, pq, l2, sim, ticks, mk>>
    /\ UNCHANGED live_orders
    /\ pc = "idle"
    /\ ~cfg.inline
    /\ rl.step = "select"
    /\ IF killFile
       THEN /\ pc' = "shutdown"
            /\ trace' = <<>>
            /\ rl' = [rl EXCEPT !.step = "rows"]
            /\ UNCHANGED <<last_alert_id, cur, frame, batch, hist>>
       ELSE LET rows == NewRows(last_alert_id, Len(alerts))
            IN  IF rows # <<>>
                THEN /\ batch' = Tail(rows)
                     /\ Begin(Head(rows), alerts[Head(rows)].symbol,
                              alerts[Head(rows)].direction, FALSE)
                     /\ rl' = [rl EXCEPT !.step = "rows", !.delay = 0,
                                         !.idle_sleep = MIN_SLEEP]
                ELSE /\ rl' = [rl EXCEPT !.step = "snapshot", !.delay = 0]
                     /\ UNCHANGED <<last_alert_id, cur, frame, batch, hist, pc, trace>>
    /\ UNCHANGED <<cfg, partial, now, positions, outstanding_limits, trade_timestamps, saved,
                   killFile, alerts, orders, reported, todo, fills, exitCode>>

\* no rows: `db_mtime_snapshot = db_path.stat().st_mtime`, target_sleep
RunSnapshot ==
    /\ UNCHANGED <<tvars, dvars, fd, rp, pq, l2, sim, ticks, mk>>
    /\ pc = "idle"
    /\ rl.step = "snapshot"
    /\ rl' = [rl EXCEPT !.step = "probe",
                        !.snap = Len(alerts),
                        !.late = Len(alerts) > last_alert_id,
                        !.target_sleep = TargetSleep(rl.idle_sleep, MaxSleep(rl.poll_interval))]

\* the probe loop, to its end: it ends one probe after the log's modification
\* time differs from the snapshot, or when target_sleep has passed
RunProbe ==
    /\ UNCHANGED <<tvars, dvars, fd, rp, pq, l2, sim, ticks, mk>>
    /\ pc = "idle"
    /\ rl.step = "probe"
    /\ LET woke_for_write == Len(alerts) # rl.snap
       IN  \E slept \in (IF woke_for_write THEN {MTIME_PROBE, rl.target_sleep}
                         ELSE {rl.target_sleep}) :
             rl' = [rl EXCEPT !.step = "select",
                              !.snap = 0, !.late = FALSE, !.target_sleep = 0,
                              !.idle_sleep = IF woke_for_write THEN MIN_SLEEP
                                             ELSE rl.target_sleep,
                              !.delay = IF rl.late THEN slept
                                        ELSE IF woke_for_write THEN MTIME_PROBE
                                        ELSE 0]

\* rows were handled: `idle_sleep = min_sleep; time.sleep(idle_sleep); continue`
RunSleep ==
    /\ UNCHANGED <<tvars, dvars, fd, rp, pq, l2, sim, ticks, mk>>
    /\ pc = "idle"
    /\ rl.step = "rows"
    /\ rl' = [rl EXCEPT !.step = "select",
                        !.idle_sleep = MIN_SLEEP,
                        !.delay = IF Len(alerts) > last_alert_id THEN MIN_SLEEP ELSE 0]

\* ------------------------------------------------ grok.py, the alert price
\* prices in half cents. A field of a LEVELONE item is 0 when the item lacks it
\* or carries 0 or None (on_level1 and on_book treat the three alike)
L1Fields == {"LAST_PRICE", "BID_PRICE", "ASK_PRICE", "CLOSE_PRICE"}
L1Items ==
    [LAST_PRICE : {0, 2004}, BID_PRICE : {0, 1996}, ASK_PRICE : {0, 2008},
     CLOSE_PRICE : {0, 1990}]
\* the PRICE of the rows _flatten_l2 returned for a side, in their order (a
\* level priced nan is kept by _flatten_l2)
BookBidRows == {<<>>, <<1998>>, <<NotANumber, 1998>>}
BookAskRows == {<<>>, <<2002>>}
MaxItems == 2               \* LEVELONE items delivered before the book
NoItem == [f \in L1Fields |-> 0]

\* Python's truth of a price: 0, 0.0 and None are false, nan is true
Truthy(price) == price # 0

\* a > b on floats: false when either is nan
Greater(a, b) == a # NotANumber /\ b # NotANumber /\ a > b

\* max(..., default=0.0) and min(..., default=0.0) as Python computes them: the
\* first item is kept until a later one compares greater (less)
RECURSIVE PyMaxFrom(_, _)
PyMaxFrom(best, prices) ==
    IF prices = <<>> THEN best
    ELSE PyMaxFrom(IF Greater(Head(prices), best) THEN Head(prices) ELSE best,
                   Tail(prices))
PyMax(prices) == IF prices = <<>> THEN 0 ELSE PyMaxFrom(Head(prices), Tail(prices))
RECURSIVE PyMinFrom(_, _)
PyMinFrom(best, prices) ==
    IF prices = <<>> THEN best
    ELSE PyMinFrom(IF Greater(best, Head(prices)) THEN Head(prices) ELSE best,
                   Tail(prices))
PyMin(prices) == IF prices = <<>> THEN 0 ELSE PyMinFrom(Head(prices), Tail(prices))

\* (bid_price + ask_price) / 2
BookMidpoint(bid_price, ask_price) ==
    IF bid_price = NotANumber \/ ask_price = NotANumber THEN NotANumber
    ELSE (bid_price + ask_price) \div 2

\* on_level1: the price the item is judged by
L1Price(it, last) ==
    LET p1 == it.LAST_PRICE
        p2 == IF Truthy(p1) THEN p1 ELSE it.BID_PRICE
        p3 == IF Truthy(p2) THEN p2 ELSE it.ASK_PRICE
        p4 == IF Truthy(p3) THEN p3 ELSE it.CLOSE_PRICE
    IN  IF Truthy(p4) THEN p4 ELSE last.LAST_PRICE

\* on_level1 for an item of the symbol: last_l1[sym] = it when the item has a
\* price
StoreItem(it, last) == IF Truthy(L1Price(it, last)) THEN it ELSE last

\* on_book: the price of the alert
ResolvePrice(last, bids, asks) ==
    LET price == last.LAST_PRICE
        bid_price == PyMax(bids)
        ask_price == PyMin(asks)
    IN  IF ~Truthy(price) /\ Truthy(bid_price) /\ Truthy(ask_price)
        THEN BookMidpoint(bid_price, ask_price)
        ELSE price

\* the market data of one symbol. last_l1: the stored LEVELONE item; known: per
\* field, the last value LEVELONE delivered; bids, asks, price: the book
\* on_book was called with and the price it resolved; alert: the book passed
\* the alert gate
FeedStart ==
    [step |-> "l1", items |-> 0, last_l1 |-> NoItem, known |-> NoItem,
     bids |-> <<>>, asks |-> <<>>, price |-> 0, alert |-> FALSE]

\* the book has a row with a price > 0
Quoted(prices) == \E i \in 1..Len(prices) : prices[i] > 0

OnLevel1 ==
    /\ UNCHANGED <<tvars, dvars, fd, rp, pq, l2, sim, ticks, rl>>
    /\ mk.step = "l1"
    /\ mk.items < MaxItems
    /\ \E it \in L1Items :
          mk' = [mk EXCEPT !.items = @ + 1,
                           !.last_l1 = StoreItem(it, mk.last_l1),
                           !.known = [f \in L1Fields |->
                                         IF Truthy(it[f]) THEN it[f] ELSE mk.known[f]]]

\* on_book, lines 556-572, and whether the book goes on to an alert: a book that
\* does has four valid venues, so rows priced > 0 on both sides
OnBookPrice ==
    /\ UNCHANGED <<tvars, dvars, fd, rp, pq, l2, sim, ticks, rl>>
    /\ mk.step = "l1"
    /\ \E bids \in BookBidRows, asks \in BookAskRows, alert \in BOOLEAN :
          /\ alert => Quoted(bids) /\ Quoted(asks)
          /\ mk' = [mk EXCEPT !.step = "priced", !.bids = bids, !.asks = asks,
                              !.alert = alert,
                              !.price = ResolvePrice(mk.last_l1, bids, asks)]

\* ---------------------------------------------- grok.py, the candidate
\* heavy venues a book may have on a side
HeavyCounts == 0..5
MaxTicks == 2               \* book ticks of the symbol

\* a variant that asks for five venues more
CandidateOfFive(disable_bid_heavy, bid_heavy_venues, ask_heavy_venues) ==
    IF ~disable_bid_heavy /\ bid_heavy_venues >= ask_heavy_venues + 5 THEN "bid-heavy"
    ELSE IF ask_heavy_venues >= bid_heavy_venues + 5 THEN "ask-heavy"
    ELSE "none"

\* on_book, lines 606-610, for either setting of DISABLE_BID_HEAVY
CandidateOf(disable_bid_heavy, bid_heavy_venues, ask_heavy_venues) ==
    IF ~disable_bid_heavy /\ bid_heavy_venues >= ask_heavy_venues + 4 THEN "bid-heavy"
    ELSE IF ask_heavy_venues >= bid_heavy_venues + 4 THEN "ask-heavy"
    ELSE "none"

\* the book ticks of one symbol: the heavy venues of the last tick, its time and
\* direction, and the symbol's ring before it
CandidateStart(disable_bid_heavy) ==
    [step |-> "book", n |-> 0, disable_bid_heavy |-> disable_bid_heavy,
     bid_heavy_venues |-> 0, ask_heavy_venues |-> 0, direction |-> "none",
     now |-> 0, before |-> <<>>]

\* on_book, lines 606-612: the direction, and the append to last_imbalance[sym]
OnBookCandidate ==
    /\ UNCHANGED <<tvars, fd, rp, pq, l2, sim, ticks, rl>>
    /\ UNCHANGED <<clock, last_alert, emitted, grok, logged, work, inline_handled,
                   tail_last_alert_id>>
    /\ mk.n < MaxTicks
    /\ \E sym \in cfg.symbols, bid_heavy_venues \in HeavyCounts,
          ask_heavy_venues \in HeavyCounts :
          LET direction == CandidateOf(mk.disable_bid_heavy, bid_heavy_venues,
                                       ask_heavy_venues)
          IN  /\ mk' = [mk EXCEPT !.step = "tick", !.n = @ + 1,
                                  !.bid_heavy_venues = bid_heavy_venues,
                                  !.ask_heavy_venues = ask_heavy_venues,
                                  !.direction = direction,
                                  !.now = clock,
                                  !.before = last_imbalance[sym]]
              /\ last_imbalance' =
                    IF direction = "none" THEN last_imbalance
                    ELSE [last_imbalance EXCEPT ![sym] =
                             RingAppend(@, [ts |-> clock, direction |-> direction])]

\* ------------------------------------------ grok.py, the rolling window
WINDOW_SECONDS == 60
NO_DATA_SEC == 30           \* on_book: `> 30.0`
FALLBACK_EVERY_SEC == 10    \* on_book: `>= 10.0`
\* defaultdict(float) gives 0.0, the epoch, for a symbol without data or
\* fallback yet: long before the clock of the run
LongAgo == -3600
PrintSizes == {0, 100}      \* LAST_SIZE of a TIMESALE item
ChartVolumes == {0, 100, 200}   \* cumulative VOLUME of a CHART_EQUITY item
\* total_bids + total_asks of the book on_book was called with
BookTotals == {0, 1, 400}
MaxMessages == 3            \* messages of the symbol the window is followed for

\* _prune: pops from the left while the first print is older than the cutoff
RECURSIVE PruneFrom(_, _)
PruneFrom(q, cutoff) ==
    IF q # <<>> /\ Head(q).ts < cutoff THEN PruneFrom(Tail(q), cutoff) ELSE q

\* _prune(sym, now_ts)
Prune(q, now_ts) == PruneFrom(q, now_ts - WINDOW_SECONDS)

\* the window of one symbol. n: messages so far; trades: trades[sym], prints
\* [ts, sz, src];
\* summarized: the window _summarize was given by the last on_book, at: when
WindowStart ==
    [step |-> "window", n |-> 0, trades |-> <<>>, last_chart_or_timesale_ts |-> LongAgo,
     last_volume_fallback_ts |-> LongAgo, last_cum_volume |-> 0,
     summarized |-> <<>>, at |-> LongAgo, fallbacks |-> <<>>]

\* the time stamps a message may carry: any clock time up to now
Stamps == {t \in ClockTimes : t <= clock}

\* on_timesale for an item of the symbol
OnTimesale ==
    /\ UNCHANGED <<tvars, dvars, fd, rp, pq, l2, sim, ticks, rl>>
    /\ mk.n < MaxMessages
    /\ \E ts \in Stamps, sz \in PrintSizes :
          mk' = [mk EXCEPT !.n = @ + 1,
                           !.last_chart_or_timesale_ts = clock,
                           !.trades = IF sz > 0
                                      THEN Prune(Append(@, [ts |-> ts, sz |-> sz,
                                                            src |-> "timesale"]), ts)
                                      ELSE @]

\* on_chart_equity for an item of the symbol
OnChartEquity ==
    /\ UNCHANGED <<tvars, dvars, fd, rp, pq, l2, sim, ticks, rl>>
    /\ mk.n < MaxMessages
    /\ \E ts \in Stamps, cum \in ChartVolumes :
          LET delta == cum - mk.last_cum_volume
          IN  mk' = [mk EXCEPT !.n = @ + 1,
                               !.last_chart_or_timesale_ts = clock,
                               !.last_cum_volume = cum,
                               !.trades = IF delta < 0 THEN <<>>
                                          ELSE IF delta > 0
                                          THEN Prune(Append(@, [ts |-> ts, sz |-> delta,
                                                                src |-> "chart"]), ts)
                                          ELSE @]

\* on_book, lines 573-595: the fallback print and vol_per_min
OnBookVolume ==
    /\ UNCHANGED <<tvars, dvars, fd, rp, pq, l2, sim, ticks, rl>>
    /\ mk.n < MaxMessages
    /\ \E total \in BookTotals :
          LET est_volume == total \div 2
              fallback == /\ clock - mk.last_chart_or_timesale_ts > NO_DATA_SEC
                          /\ clock - mk.last_volume_fallback_ts >= FALLBACK_EVERY_SEC
              q == IF fallback
                   THEN Prune(Append(mk.trades, [ts |-> clock, sz |-> est_volume,
                                                 src |-> "fallback"]), clock)
                   ELSE mk.trades
          IN  mk' = [mk EXCEPT !.n = @ + 1,
                               !.trades = q,
                               !.last_volume_fallback_ts = IF fallback THEN clock ELSE @,
                               !.fallbacks = IF fallback THEN Append(@, clock) ELSE @,
                               !.summarized = q,
                               !.at = clock]

\* grok.py's market data is not followed
NoMarket == [FeedStart EXCEPT !.step = "none"]
NoFeed == mk = NoMarket

\* no order followed alone, no log replayed
AtRest ==
    /\ fd = NoFill /\ rp = NoReplay /\ NoQuery /\ NoPayload /\ NoExecutor /\ NoTicks
    /\ NoRun /\ NoFeed

Init == cfg \in Configs /\ TraderStart /\ DetectorStart /\ AtRest

Spec == Init /\ [][Next]_vars

\* the detector alone, the trader at rest
BookInit ==
    /\ cfg = Conf("MARKET", TRUE, TRUE, TRUE, Symbols) /\ TraderStart /\ AtRest
    /\ \E m \in Modes : DetectorStartIn(m)

\* one run of grok.py
BookNext ==
    \/ ClockTick
    \/ OnBook
    \/ InlineWorker

BookSpec == BookInit /\ [][BookNext]_vars

\* grok.py stopped and started again, and a LiveTrader tailing its log
GrokNext ==
    \/ ClockTick
    \/ OnBook
    \/ InlineWorker
    \/ GrokStart
    \/ GrokStop
    \/ TailPoll

\* grok.py with one symbol in SYMBOLS
GrokInit ==
    /\ cfg = Conf("MARKET", TRUE, TRUE, TRUE, {"A"}) /\ TraderStart /\ AtRest
    /\ \E m \in Modes : DetectorStartIn(m)

GrokSpec == GrokInit /\ [][GrokNext]_vars

\* one run of grok.py with one symbol, its ticks recorded
StreakNext ==
    \/ ClockTick
    \/ OnBookSeen
    \/ InlineWorker

StreakSpec == GrokInit /\ [][StreakNext]_vars

\* LiveTrader.run tailing the log, its sleeps followed: limit orders under policy
\* REPRICE for one symbol
LiveInit ==
    /\ cfg = Conf("REPRICE", FALSE, TRUE, FALSE, {"A"})
    /\ TraderStart /\ DetectorStart
    /\ fd = NoFill
    /\ rp = NoReplay
    /\ NoQuery /\ NoPayload /\ NoExecutor /\ NoTicks
    /\ rl \in {LoopStart(i) : i \in PollIntervals}
    /\ NoFeed

\* what the engine's thread does. The trade clock `now` stands still in this
\* specification, so no outstanding order outlives LIMIT_FILL_TIMEOUT and
\* _reconcile_outstanding_limit never comes to its cancel
LiveSteps ==
    \/ RunSelect
    \/ RunSnapshot
    \/ RunProbe
    \/ RunSleep
    \/ Return
    \/ Reconcile
    \/ Submit
    \/ Market
    \/ Poll
    \/ Cancel
    \/ Reprice
    \/ LegDone
    \/ Shutdown
    \/ Flatten

LiveNext ==
    \/ AppendAlert
    \/ LiveSteps

\* run() is a loop of one thread: it takes its next step as long as it has one
LiveSpec == LiveInit /\ [][LiveNext]_vars /\ WF_vars(LiveSteps)

\* LEVELONE items and then a book for one symbol
FeedInit ==
    /\ cfg = Conf("MARKET", FALSE, TRUE, TRUE, {"A"}) /\ TraderStart /\ DetectorStart
    /\ fd = NoFill
    /\ rp = NoReplay
    /\ NoQuery /\ NoPayload /\ NoExecutor /\ NoTicks
    /\ NoRun
    /\ mk = FeedStart

FeedNext ==
    \/ OnLevel1
    \/ OnBookPrice

FeedSpec == FeedInit /\ [][FeedNext]_vars

\* the book ticks of one symbol, with DISABLE_BID_HEAVY set or not
CandidateInit ==
    /\ cfg = Conf("MARKET", TRUE, TRUE, TRUE, {"A"}) /\ TraderStart /\ DetectorStart
    /\ fd = NoFill
    /\ rp = NoReplay
    /\ NoQuery /\ NoPayload /\ NoExecutor /\ NoTicks
    /\ NoRun
    /\ \E d \in BOOLEAN : mk = CandidateStart(d)

CandidateNext ==
    \/ ClockTick
    \/ OnBookCandidate

CandidateSpec == CandidateInit /\ [][CandidateNext]_vars

\* the trade prints and the book ticks of one symbol
WindowInit ==
    /\ cfg = Conf("MARKET", TRUE, TRUE, TRUE, {"A"}) /\ TraderStart /\ DetectorStart
    /\ fd = NoFill
    /\ rp = NoReplay
    /\ NoQuery /\ NoPayload /\ NoExecutor /\ NoTicks
    /\ NoRun
    /\ mk = WindowStart

WindowNext ==
    \/ ClockTick
    \/ OnTimesale
    \/ OnChartEquity
    \/ OnBookVolume

WindowSpec == WindowInit /\ [][WindowNext]_vars

\* _apply_filled_delta alone, fed the replies about one order
FillInit ==
    /\ cfg = Conf("MARKET", TRUE, TRUE, TRUE, {"A"}) /\ TraderStart /\ DetectorStart
    /\ fd \in FillInputs
    /\ rp = NoReplay
    /\ NoQuery /\ NoPayload /\ NoExecutor /\ NoTicks
    /\ NoRun /\ NoFeed

FillNext == FeedReport

FillSpec == FillInit /\ [][FillNext]_vars

\* a log applied twice to a LiveTrader whose orders all fill
ReplayInit ==
    /\ cfg = Conf("MARKET", TRUE, TRUE, TRUE, {"A"}) /\ TraderStart /\ DetectorStart
    /\ fd = NoFill
    /\ rp \in ReplayInputs
    /\ NoQuery /\ NoPayload /\ NoExecutor /\ NoTicks
    /\ NoRun /\ NoFeed

ReplayNext ==
    \/ ReplayAlert
    \/ ReplayAgain
    \/ ReplayTick

ReplaySpec == ReplayInit /\ [][ReplayNext]_vars

\* the prices of one order
PriceInit ==
    /\ cfg = Conf("MARKET", FALSE, TRUE, TRUE, {"A"}) /\ TraderStart /\ DetectorStart
    /\ fd = NoFill
    /\ rp = NoReplay
    /\ pq \in PriceInputs
    /\ NoPayload /\ NoExecutor /\ NoTicks
    /\ NoRun /\ NoFeed

PriceNext ==
    \/ TakeReferencePrice
    \/ TakeLimitPrice

PriceSpec == PriceInit /\ [][PriceNext]_vars

\* one level-2 payload through _flatten_l2 and process_book
DepthInit ==
    /\ cfg = Conf("MARKET", TRUE, TRUE, TRUE, {"A"}) /\ TraderStart /\ DetectorStart
    /\ fd = NoFill
    /\ rp = NoReplay
    /\ NoQuery /\ NoExecutor /\ NoTicks
    /\ NoRun /\ NoFeed
    /\ l2 \in Payloads

DepthNext ==
    \/ FlattenL2
    \/ ProcessBook

DepthSpec == DepthInit /\ [][DepthNext]_vars

\* one order of a SimulatedExecutor: placed, polled, cancelled
SimInit ==
    /\ cfg = Conf("MARKET", TRUE, TRUE, TRUE, {"A"}) /\ TraderStart /\ DetectorStart
    /\ fd = NoFill
    /\ rp = NoReplay
    /\ NoQuery /\ NoPayload /\ NoTicks
    /\ NoRun /\ NoFeed
    /\ sim \in OrderInputs

SimNext ==
    \/ PlaceOrder
    \/ GetOrderStatus
    \/ CancelOrder

SimSpec == SimInit /\ [][SimNext]_vars

\* ------------------------------------------------- properties of the trader
\* the orders an alert's handling submitted itself (not the flattening orders
\* of an emergency shutdown)
Submitted == SelectSeq(trace, LAMBDA e : e.op \in {"submit_limit", "submit_market"}
                                         /\ e.leg \in {"open", "close"})

\* C1, as the specification states it: between alerts every symbol's position is
\* 0, +POSITION_SIZE or -SHORT_SIZE, whatever the broker did
FlipOnly ==
    pc = "idle" => \A s \in Symbols : positions[s] \in {0, POSITION_SIZE, -SHORT_SIZE}

\* C1, amended: between alerts every symbol's position is 0, +POSITION_SIZE or
\* -SHORT_SIZE provided the broker never left a limit order partially filled
FlipOnlyWholeFills ==
    (pc = "idle" /\ ~partial) =>
        \A s \in Symbols : positions[s] \in {0, POSITION_SIZE, -SHORT_SIZE}

\* C1: a long was flipped to a full short through limit orders, none of them
\* partially filled
FlipOnlyWholeFillsWitness ==
    /\ pc = "idle" /\ ~partial
    /\ cfg.prefer_limit /\ ~cfg.dry_run
    /\ last_alert_id = 2
    /\ Len(orders) = 2
    /\ positions["A"] = -SHORT_SIZE

\* C2: once the engine has returned and a symbol has no working order (and no
\* outstanding entry left to reconcile), the engine's position equals the signed
\* sum of the shares the broker reported filled for that symbol
PositionConservation ==
    (pc \in {"idle", "exited"} /\ ~cfg.dry_run) =>
        \A s \in Symbols :
            (~Working(s) /\ outstanding_limits[s] = NoLimit) => positions[s] = reported[s]

\* C3: on a flip the first order is the close for the whole position, and an
\* opening order (SHORT SHORT_SIZE after SELL, BUY POSITION_SIZE after COVER) is
\* submitted only once the close was reported filled
CloseBeforeOpen ==
    LET flipLong == cur.direction = "ask-heavy" /\ cur.dec > 0
        flipShort == cur.direction = "bid-heavy" /\ cur.dec < 0
        closeSide == IF flipLong THEN "SELL" ELSE "COVER"
        openSide == IF flipLong THEN "SHORT" ELSE "BUY"
        openQty == IF flipLong THEN SHORT_SIZE ELSE POSITION_SIZE
    IN  (cur.id # 0 /\ (flipLong \/ flipShort)) =>
           /\ Submitted # <<>> =>
                 Submitted[1].side = closeSide /\ Submitted[1].qty = Abs(cur.dec)
           /\ \A i \in 1..Len(Submitted) :
                 Submitted[i].side # closeSide =>
                    /\ Submitted[i].side = openSide
                    /\ Submitted[i].leg = "open"
                    /\ cur.closed = "FILLED"
                    /\ Submitted[i - 1].leg = "close" => Submitted[i].qty = openQty
           /\ cur.closed = "FAILED" => \A i \in 1..Len(Submitted) :
                                           Submitted[i].side = closeSide

\* C3: a short was covered and the BUY that opens the long has been submitted
CloseBeforeOpenWitness ==
    /\ cur.direction = "bid-heavy" /\ cur.dec = -SHORT_SIZE
    /\ cur.closed = "FILLED"
    /\ Len(Submitted) >= 2
    /\ Submitted[1].side = "COVER"
    /\ Submitted[Len(Submitted)].side = "BUY"

\* C4, as the specification states it: when process_alert returns while the limit
\* order that was outstanding is still working, it has submitted no order and the
\* position is what it was before the alert
BlockedLeavesPosition ==
    (pc = "finish" /\ cur.lim # 0 /\ orders[cur.lim].status = "WORKING") =>
        /\ Submitted = <<>>
        /\ positions[cur.symbol] = cur.pre

\* C4, amended: when process_alert returns while the limit order that was
\* outstanding is still working, it has submitted no order, and the position
\* changed by exactly the fills of that order that reconciliation newly saw
BlockedRecordsOnlyFills ==
    (pc = "finish" /\ cur.lim # 0 /\ orders[cur.lim].status = "WORKING") =>
        LET entry == outstanding_limits[cur.symbol]
        IN  /\ Submitted = <<>>
            /\ entry.order_id = cur.lim
            /\ positions[cur.symbol] - cur.pre =
                  SideDelta(entry.side, entry.filled_seen - cur.seen0)

\* C4: an alert was blocked by a working limit order of which reconciliation
\* recorded a newly filled share
BlockedRecordsOnlyFillsWitness ==
    /\ pc = "finish" /\ cur.blocked
    /\ cur.lim # 0 /\ orders[cur.lim].status = "WORKING"
    /\ positions[cur.symbol] # cur.pre

\* C5: when a limit order ended in the market fallback, exactly one market order
\* was submitted for it, for qty - filled_seen, and the position moved by the
\* order's whole quantity in the order's direction
MarketFallbackOnce ==
    frame.filled_via = "MARKET_FALLBACK" =>
        LET mkts == SelectSeq(trace, LAMBDA e : e.op = "submit_market"
                                                /\ e.leg = frame.leg)
        IN  /\ Len(mkts) = 1
            /\ mkts[1].qty = frame.qty - frame.seen
            /\ mkts[1].side = frame.side
            /\ positions[frame.symbol] - frame.start_pos = SideDelta(frame.side, frame.qty)

\* C5: a market fallback completed a limit order of which one share had filled
MarketFallbackOnceWitness ==
    /\ frame.filled_via = "MARKET_FALLBACK"
    /\ frame.cancelled
    /\ frame.seen = 1
    /\ frame.qty = 2

\* C6: a step that records a fill engages the emergency shutdown exactly when
\* more than MAX_TRADES_PER_HOUR fills lie within the 3600 s up to it
RateLimitExact ==
    [][positions' # positions =>
          ((pc' = "shutdown") <=> (Len(fills') > MAX_TRADES_PER_HOUR))]_vars

\* C6: four alerts of one fill each, the fourth engaging the shutdown
RateLimitExactWitness ==
    /\ pc = "shutdown"
    /\ last_alert_id = 4
    /\ Len(fills) = MAX_TRADES_PER_HOUR + 1
    /\ Len(trace) = 1

\* C7: an alert that is handled while the kill-switch file exists has no order
\* submitted for it
KillSwitchBeforeAlert ==
    (cur.id # 0 /\ cur.kill) => Submitted = <<>>

\* C8: the emergency shutdown is one cancel_all_orders, then market orders that
\* flatten, at most one per symbol, then the state save, then the exit
ShutdownInOrder ==
    pc = "exited" =>
        LET t == SelectSeq(trace, LAMBDA e : e.leg \in {"shutdown", "flatten"})
            n == Len(t)
        IN  /\ n >= 3
            /\ t[1].op = "cancel_all_orders"
            /\ t[n - 1].op = "save_state"
            /\ t[n].op = "exit" /\ t[n].qty = 1
            /\ \A i \in 2..(n - 2) :
                  /\ t[i].op = "submit_market"
                  /\ \A j \in 2..(n - 2) : t[j].symbol = t[i].symbol => j = i

\* C9: right after a market fill, the emergency shutdown is engaged exactly when
\* the fill price's fraction lies in the band of the fill's side: [0.985, 0.995]
\* for BUY and COVER, [0.005, 0.015] for SELL and SHORT
BadFillGuard ==
    frame.mkt # "" =>
        ((pc = "shutdown") <=>
            \/ frame.mkt \in {"BUY", "COVER"} /\ frame.frac \in 985..995
            \/ frame.mkt \in {"SELL", "SHORT"} /\ frame.frac \in 5..15)

\* ----------------------------------------------- properties of the detector
\* C10: two consecutive alerts for the same symbol are at least
\* ALERT_THROTTLE_SEC apart
ThrottleSpacing ==
    \A i \in 1..Len(emitted), j \in 1..Len(emitted) :
        (/\ i < j
         /\ emitted[i].symbol = emitted[j].symbol
         /\ \A k \in (i + 1)..(j - 1) : emitted[k].symbol # emitted[i].symbol)
        => emitted[j].timestamp - emitted[i].timestamp >= ALERT_THROTTLE_SEC

\* C10: a symbol alerted twice, the second time exactly when the throttle opened
ThrottleSpacingWitness ==
    \E i \in 1..Len(emitted), j \in 1..Len(emitted) :
        /\ i < j
        /\ emitted[i].symbol = emitted[j].symbol
        /\ emitted[j].timestamp - emitted[i].timestamp = ALERT_THROTTLE_SEC

ReplayIdempotent ==
    (rp.pass = 2 /\ (rp.i > Len(rp.log) \/ rp.exited)) => rp.positions = rp.first

\* C15, amended: when every order fills and the second pass does not engage the
\* emergency shutdown, applying the rows of the log a second time leaves the
\* positions the first pass produced
ReplayIdempotentUnlessShutdown ==
    (rp.pass = 2 /\ rp.i > Len(rp.log) /\ ~rp.exited) => rp.positions = rp.first

\* C15: a second pass that flipped a position away and back
ReplayIdempotentUnlessShutdownWitness ==
    /\ rp.pass = 2 /\ rp.i > Len(rp.log) /\ ~rp.exited
    /\ rp.moved
    /\ rp.positions = rp.first

\* ------------------------------------------------------------------ C13
\* the positions of the engine while process_alert runs for a fetched row
Processing == {"reconcile", "reconcile_cancel", "submit", "market", "poll", "repoll",
               "leg_done", "finish"}

\* C13: tailing the log, run() hands the rows above the last_alert_id it started
\* with to process_alert one by one in ascending rowid order, each once and none
\* at or below that id: the ids handled so far, followed by the rows fetched and
\* not yet handled, are hist.start + 1, hist.start + 2, ...; while a batch is
\* being handled they reach the last row of the table, and last_alert_id is the
\* id handled last
TailInOrder ==
    ~cfg.inline =>
        LET h == hist.handled \o batch
        IN  /\ \A k \in 1..Len(h) : h[k] = hist.start + k
            /\ \A k \in 1..Len(h) : h[k] > hist.start /\ h[k] <= Len(alerts)
            /\ \A j, k \in 1..Len(hist.handled) : j < k => hist.handled[j] < hist.handled[k]
            /\ hist.handled # <<>> => last_alert_id = hist.handled[Len(hist.handled)]
            /\ pc \in Processing => Len(h) = Len(alerts) - hist.start

\* a pass of run() that fetched several rows has handled two of them and has a
\* third one left
TailInOrderWitness ==
    /\ ~cfg.inline
    /\ Len(hist.handled) >= 2
    /\ batch # <<>>
    /\ pc \in Processing

\* ------------------------------------------------------------------ C17
\* C17: a LiveTrader started again resumes the tail where the one before it
\* stopped: its last_alert_id after construction is the last_alert_id the
\* previous LiveTrader had when it stopped, so that every row appended since is
\* fetched by the next pass and no row handled before is fetched again
ResumeAfterRestart ==
    (~cfg.inline /\ hist.runs > 0) => hist.start = hist.stop_id

\* ------------------------------------------------------------------ C18
\* the _submit_order call that is about to write its row had a submission
\* rejected by the broker
RejectedLeg == pc = "leg_done" /\ frame.rejects > 0

\* a rejected submission moves no position: when nothing of the leg was filled
\* the position is the one the leg started with
RejectionKeepsPosition ==
    (RejectedLeg /\ ~frame.filled /\ frame.filled_qty = 0) =>
        positions[frame.symbol] = frame.start_pos

\* C18: when the broker rejected a submission of a _submit_order call, the call
\* changed no position because of it and the row it writes to live_orders
\* carries the error
RejectionRecorded ==
    RejectedLeg => (frame.error /\ RejectionKeepsPosition)

\* ------------------------------------------------------------------ C19
\* C19: every _submit_order call appends exactly one row to live_orders, the
\* call whose fill trips the rate limit and the flatten orders of the emergency
\* shutdown included: whenever no call is under way the table has as many rows
\* as calls were made
OrderLogComplete ==
    pc \in {"idle", "finish", "stopped", "exited"} => Len(live_orders) = hist.legs

AlertIdsIncrease ==
    \A i \in 1..Len(emitted), j \in 1..Len(emitted) :
        i < j => emitted[i].id < emitted[j].id

\* ------------------------------------------------------------------ C14
\* C14: an alert dispatched inline outside inline-only mode is also appended to
\* the log, and no id that went to the inline LiveTrader is handled by a
\* LiveTrader tailing the log
NoDoubleDelivery ==
    /\ \A i \in 1..Len(emitted) :
          (emitted[i].dispatched /\ emitted[i].mode # "inline_only") => emitted[i].logged
    /\ \A i \in 1..Len(inline_handled) : inline_handled[i].id > tail_last_alert_id
    /\ \A w \in work : w.id > tail_last_alert_id

\* ------------------------------------------------------------------ C16
\* C16: the inline LiveTrader is called with the alerts of one symbol in
\* strictly increasing id order
InlineIdOrder ==
    \A i \in 1..Len(inline_handled), j \in 1..Len(inline_handled) :
        (i < j /\ inline_handled[i].symbol = inline_handled[j].symbol)
        => inline_handled[i].id < inline_handled[j].id

\* ------------------------------------------------------------------ C21
\* the rows of live_orders written for the alert being handled
RowsOfAlert == SelectSeq(live_orders, LAMBDA r : r.alert_rowid = cur.id)

\* the alert being handled found its symbol flat and without outstanding limit
FromFlat == cur.id # 0 /\ cur.pre = 0 /\ cur.lim = 0

SameSide ==
    /\ cur.id # 0
    /\ \/ cur.direction = "ask-heavy" /\ cur.pre < 0
       \/ cur.direction = "bid-heavy" /\ cur.pre > 0

\* the alert being handled left no trace but last_alert_id: no submission, no
\* row, the symbol's position and outstanding limit as process_alert found them
NothingDone ==
    /\ Submitted = <<>>
    /\ RowsOfAlert = <<>>
    /\ positions[cur.symbol] = cur.pre
    /\ outstanding_limits[cur.symbol].order_id = cur.lim
    /\ outstanding_limits[cur.symbol].filled_seen = cur.seen0

\* C22, as the specification states it: an ask-heavy alert for a short symbol and
\* a bid-heavy alert for a long one submits nothing, writes no row and leaves
\* positions and outstanding limits unchanged
SkipSameSide ==
    (SameSide /\ pc \in Processing) => NothingDone

\* C22, amended: the same, for a symbol without outstanding limit
SkipSameSideNoLimit ==
    (SameSide /\ cur.lim = 0 /\ pc \in Processing) => (NothingDone /\ pc = "finish")

\* an ask-heavy alert was skipped on a short symbol
SkipSameSideNoLimitWitness ==
    /\ SameSide /\ cur.lim = 0 /\ pc = "finish"
    /\ cur.direction = "ask-heavy"
    /\ positions[cur.symbol] = -SHORT_SIZE
    /\ last_alert_id = cur.id

\* ------------------------------------------------------------------ C23
\* C23: for every reference price above 0 the limit price is strictly above it
\* for BUY and COVER and strictly below it for SELL and SHORT
LimitPadsStrictly ==
    (pq.step = "limit" /\ pq.ref > 0) =>
        /\ pq.side \in {"BUY", "COVER"} => pq.limit > pq.ref
        /\ pq.side \in {"SELL", "SHORT"} => pq.limit < pq.ref

\* ------------------------------------------------------------------ C24
\* a quote field that holds a price
Usable(x) == x # Missing /\ x # BadText

TestLimit == 119880

\* C25: with the quote bid 11.9, ask 12.1, last 12.0 and 10 bps, the limit price
\* of the opening SHORT for an alert priced 10.0 is the last price less the
\* slippage, 11.988
TestRecordedPrice ==
    (/\ pq.step = "limit"
     /\ pq.has_quote
     /\ pq.bid = TestBid /\ pq.ask = TestAsk /\ pq.last = TestLast
     /\ pq.alert_price = TestAlertPrice
     /\ pq.side = "SHORT"
     /\ pq.bps = 10) => pq.limit = TestLimit

\* ------------------------------------------- properties of the level-2 book
\* the orders of a payload side that are fit to become rows: the level's price
\* positive, the venue a code of EXCHANGE_MAP, the volume positive
FitOrders(entries) ==
    {<<i, j>> \in (DOMAIN entries) \X (1..1) :
        /\ j \in DOMAIN entries[i].orders
        /\ entries[i].price > 0
        /\ ExchangeOf(entries[i].orders[j]) \in DOMAIN EXCHANGE_MAP
        /\ entries[i].orders[j].vol > 0}

RowsValid(rows) ==
    \A i \in DOMAIN rows :
        rows[i].PRICE > 0 /\ rows[i].SIZE > 0 /\ rows[i].EX \in DOMAIN EXCHANGE_MAP

\* C26: whatever the payload, _flatten_l2 returns; every row it returns has a
\* positive price, a positive size and a venue code of EXCHANGE_MAP, and the rows
\* are those of the levels and orders that meet all three.
FlattenedRowsValid ==
    l2.step \in {"raised", "book", "metrics"} =>
        /\ ~l2.raised
        /\ RowsValid(l2.book.BIDS) /\ RowsValid(l2.book.ASKS)
        /\ Len(l2.book.BIDS) = Cardinality(FitOrders(l2.bids))
        /\ Len(l2.book.ASKS) = Cardinality(FitOrders(l2.asks))

\* the venue has a counted bid row and a counted ask row, and its lowest ask is at
\* most MAX_RANGE_CENTS cents above its highest bid
QuotedWithinRange(book, ex) ==
    /\ RowsAt(book.BIDS, ex) # <<>>
    /\ RowsAt(book.ASKS, ex) # <<>>
    /\ MinOf(PricesOf(RowsAt(book.ASKS, ex))) - MaxOf(PricesOf(RowsAt(book.BIDS, ex)))
           <= MAX_RANGE_CENTS

\* C27: process_book counts a venue in per_venue, valid_exchanges, the totals and
\* the heavy-venue counts exactly when the venue has a bid row and an ask row and
\* its lowest ask is at most MAX_RANGE_CENTS cents above its highest bid.
VenueContributesIff ==
    l2.step = "metrics" =>
        LET within == {ex \in DOMAIN EXCHANGE_MAP : QuotedWithinRange(l2.book, ex)}
            bid_sum == [ex \in within |-> SizeSum(RowsAt(l2.book.BIDS, ex))]
            ask_sum == [ex \in within |-> SizeSum(RowsAt(l2.book.ASKS, ex))]
        IN  /\ DOMAIN l2.metrics.per_venue = within
            /\ l2.metrics.valid_exchanges = Cardinality(within)
            /\ l2.metrics.total_bids = SumOver(within, bid_sum)
            /\ l2.metrics.total_asks = SumOver(within, ask_sum)
            /\ l2.metrics.ask_heavy_venues
                   = Cardinality({ex \in within : ask_sum[ex] > bid_sum[ex]})
            /\ l2.metrics.bid_heavy_venues
                   = Cardinality({ex \in within : bid_sum[ex] > ask_sum[ex]})

\* the example of MAX_RANGE_CENTS = 1: a venue quoted 10.00/10.05 is left out, a
\* venue quoted 10.00/10.01 is counted
RangeExample ==
    l2.step = "metrics" =>
        \A ex \in DOMAIN EXCHANGE_MAP :
            PricesOf(RowsAt(l2.book.BIDS, ex)) = {1000} =>
                /\ PricesOf(RowsAt(l2.book.ASKS, ex)) = {1005}
                       => ex \notin DOMAIN l2.metrics.per_venue
                /\ PricesOf(RowsAt(l2.book.ASKS, ex)) = {1001}
                       => ex \in DOMAIN l2.metrics.per_venue

\* ------------------------------------ properties of the simulated executor
\* C28: when cancel_order returns True for a tracked order that is not filled,
\* the order is CANCELLED with the filled quantity it had; and an order that is
\* FILLED, CANCELLED or REJECTED keeps its status and its filled quantity under
\* every later call.
CancelIsFinal ==
    [][/\ (sim'.last_call = "cancel_order" /\ sim.step = "tracked"
              /\ sim.status # "FILLED")
          => (sim'.status = "CANCELLED" /\ sim'.returned
                /\ sim'.filled_quantity = sim.filled_quantity)
       /\ (sim.step = "tracked" /\ sim.status \in TerminalStatuses)
          => (sim'.status = sim.status
                /\ sim'.filled_quantity = sim.filled_quantity)]_vars

\* a partially filled limit order was cancelled and then polled
CancelIsFinalWitness ==
    /\ sim.step = "tracked" /\ sim.status = "CANCELLED" /\ sim.returned
    /\ sim.last_call = "get_order_status"
    /\ sim.filled_quantity[1] > 0 /\ sim.filled_quantity[1] < sim.quantity

\* what is filled does not exceed the order, and the status tells how much is
\* filled
StatusTellsFilled ==
    (sim.step = "tracked" /\ sim.order_type = "LIMIT" /\ sim.status # "CANCELLED") =>
        /\ ~(sim.filled_quantity[1] > sim.quantity
               \/ (sim.filled_quantity[1] = sim.quantity /\ sim.filled_quantity[2] > 0))
        /\ sim.status = "FILLED" <=> sim.filled_quantity[1] >= sim.quantity
        /\ sim.status = "PENDING" <=> sim.filled_quantity = Exactly(0)
        /\ sim.status \in {"FILLED", "PENDING", "PARTIALLY_FILLED"}

\* C29: while a limit order is placed and polled, its filled quantity never goes
\* down and never exceeds the order quantity, and its status is FILLED exactly
\* when all of it is filled, PENDING exactly when nothing is, PARTIALLY_FILLED
\* otherwise.
FillsTrackQuantity ==
    /\ []StatusTellsFilled
    /\ [][(sim.step = "tracked" /\ sim.order_type = "LIMIT")
            => sim'.filled_quantity[1] >= sim.filled_quantity[1]]_vars

\* ------------------------------------------------------------------ C30
\* C30: when on_book emits an alert of direction d at time now, no tick of the
\* symbol's book later than now - MIN_IMBALANCE_DURATION_SEC gave no candidate
\* or the opposite candidate.
StreakUninterrupted ==
    [][Len(emitted') > Len(emitted) =>
          LET e == emitted'[Len(emitted')]
          IN  \A c \in Candidates \ {e.direction} :
                  ticks'[e.symbol][c] <= e.timestamp - MIN_IMBALANCE_DURATION_SEC]_vars

\* the part of C30 that on_book keeps: no tick of the opposite candidate later
\* than now - MIN_IMBALANCE_DURATION_SEC
StreakOfOneDirection ==
    [][Len(emitted') > Len(emitted) =>
          LET e == emitted'[Len(emitted')]
          IN  \A c \in Candidates \ {e.direction, "none"} :
                  ticks'[e.symbol][c] <= e.timestamp - MIN_IMBALANCE_DURATION_SEC]_vars

\* ------------------------------------------------------------------ C31
\* C31: when on_book emits an alert it reserves the id MAX(rowid) + 1, hands the
\* alert to the inline LiveTrader under that id where there is one, appends it to
\* the log as the row of that id (unless INLINE_DISPATCH_ONLY keeps it out of the
\* log), and sets last_alert of the symbol to now.
EmissionInOrder ==
    [][Len(emitted') > Len(emitted) =>
          LET e == emitted'[Len(emitted')]
          IN  /\ e.dispatched => \E w \in work' : w.id = e.id /\ w.symbol = e.symbol
              /\ e.mode # "inline_only" =>
                     /\ e.id = Len(logged) + 1
                     /\ Len(logged') = e.id
                     /\ logged'[e.id].symbol = e.symbol
              /\ last_alert'[e.symbol] = e.timestamp]_vars

\* ------------------------------------------------------------------ C32
\* a cancel request for a timed-out limit order and the status read after it
\* have just been made, and the fill they brought did not trip the rate limit
CancelRequested ==
    /\ pc \in {"cancel", "reconcile_cancel"}
    /\ Len(trace') = Len(trace) + 1
    /\ trace'[Len(trace')].op = "cancel_order"
    /\ pc' # "shutdown"

\* the order the cancel request is about, as the engine knew it before
CancelledEntry ==
    IF pc = "cancel"
    THEN [order_id |-> frame.order_id, side |-> frame.side, qty |-> frame.qty,
          filled_seen |-> frame.filled_qty]
    ELSE [order_id |-> outstanding_limits[cur.symbol].order_id,
          side |-> outstanding_limits[cur.symbol].side,
          qty |-> outstanding_limits[cur.symbol].qty,
          filled_seen |-> outstanding_limits[cur.symbol].filled_seen]

\* the shares of the order the engine has put into the position once the read
\* after the cancel request is applied
SeenAfterCancel ==
    LET sym == trace'[Len(trace')].symbol
    IN  CancelledEntry.filled_seen + Abs(positions'[sym] - positions[sym])

\* the read after the cancel request brings the position no further from the
\* shares the broker has reported for the symbol than it was: what the read
\* adds is applied, and nothing else is; a read that reports the order filled
\* without a quantity has nothing to apply
PostCancelReadApplied ==
    LET sym == trace'[Len(trace')].symbol
        o == orders'[CancelledEntry.order_id]
    IN  \/ Abs(positions'[sym] - reported'[sym]) <= Abs(positions[sym] - reported[sym])
        \/ /\ o.status \in FILLED_STATUSES
           /\ positions'[sym] = positions[sym]

\* C32: after the cancel request and the status read that follows it, the
\* additional filled quantity of the read is applied; the symbol's
\* OutstandingLimit is cleared when the cancel succeeded (or the read shows the
\* order ended), and otherwise the order stays tracked with the filled_seen
\* the read brought
ClearedAfterPostCancelRead ==
    [][CancelRequested =>
          LET ev == trace'[Len(trace')]
              o == orders'[CancelledEntry.order_id]
          IN  /\ PostCancelReadApplied
              /\ IF ev.ok THEN outstanding_limits'[ev.symbol] = NoLimit
                 ELSE \/ /\ outstanding_limits'[ev.symbol].order_id = CancelledEntry.order_id
                         /\ outstanding_limits'[ev.symbol].filled_seen = SeenAfterCancel
                      \/ /\ pc = "reconcile_cancel"
                         /\ Ended(o.status)
                         /\ outstanding_limits'[ev.symbol] = NoLimit]_vars

\* ------------------------------------------------------------------ C33
TwoSeconds == 200

\* process_alert was called with row k of the log
HandedOver(k) == \E i \in 1..Len(hist.handled) : hist.handled[i] = k

\* the engine is in its emergency shutdown, or has exited
ShutDown == pc \in {"shutdown", "flatten", "exited"}

\* every row of the log is handed to process_alert, or the engine shuts down
EveryRowHandedOver ==
    \A k \in 1..LimitAlerts : (Len(alerts) >= k) ~> (HandedOver(k) \/ ShutDown)

\* a process_alert call that began returns (or ends in the emergency shutdown)
ProcessAlertReturns ==
    (pc \notin {"idle", "exited"}) ~> (pc \in {"idle", "exited"})

\* when run() comes to fetch a row appended while the engine was idle, the row
\* has been in the log for `bound` at most
FetchedWithin(bound) ==
    rl.step = "select" /\ Len(alerts) > last_alert_id => rl.delay <= bound

KnownL1Price ==
    LET k == mk.known
    IN  IF Truthy(k.LAST_PRICE) THEN k.LAST_PRICE
        ELSE IF Truthy(k.BID_PRICE) THEN k.BID_PRICE
        ELSE IF Truthy(k.ASK_PRICE) THEN k.ASK_PRICE
        ELSE k.CLOSE_PRICE

\* C34: the price on_book resolves is the last LEVELONE LAST_PRICE known for the
\* symbol; if there is none, the LEVELONE BID, ASK or CLOSE price; only if none
\* of these is known, the midpoint of the book when both sides exist
AlertPriceResolved ==
    mk.step = "priced" =>
        IF Truthy(KnownL1Price) THEN mk.price = KnownL1Price
        ELSE Quoted(mk.bids) /\ Quoted(mk.asks) =>
                 mk.price = BookMidpoint(PyMax(mk.bids), PyMin(mk.asks))

\* ------------------------------------------------------------------ C39
\* C39: every alert on_book emits carries a price > 0
AlertPricePositive == mk.step = "priced" /\ mk.alert => mk.price > 0

\* the part of C39 that on_book keeps: the price of an alert is not 0
AlertPriceNotZero == mk.step = "priced" /\ mk.alert => mk.price # 0

\* ------------------------------------------------------------------ C35
\* C35: the candidate of a book tick is ask-heavy iff ask_heavy_venues >=
\* bid_heavy_venues + 4, bid-heavy iff bid_heavy_venues >= ask_heavy_venues + 4
\* and bid-heavy is not disabled, none otherwise; the two never hold together;
\* and the tick is appended to the symbol's ring iff it has a candidate
CandidateByFourVenues ==
    mk.step = "tick" =>
        LET ask_heavy == mk.ask_heavy_venues >= mk.bid_heavy_venues + 4
            bid_heavy == /\ mk.bid_heavy_venues >= mk.ask_heavy_venues + 4
                         /\ ~mk.disable_bid_heavy
        IN  /\ mk.direction = "ask-heavy" <=> ask_heavy
            /\ mk.direction = "bid-heavy" <=> bid_heavy
            /\ mk.direction = "none" <=> ~ask_heavy /\ ~bid_heavy
            /\ ~(ask_heavy /\ bid_heavy)
            /\ last_imbalance["A"] =
                  IF ask_heavy \/ bid_heavy
                  THEN RingAppend(mk.before, [ts |-> mk.now, direction |-> mk.direction])
                  ELSE mk.before

\* a tick with exactly four ask-heavy venues more was appended to a ring that
\* held a tick
CandidateByFourVenuesWitness ==
    /\ mk.step = "tick"
    /\ mk.ask_heavy_venues = mk.bid_heavy_venues + 4
    /\ mk.direction = "ask-heavy"
    /\ mk.before # <<>>
    /\ Len(last_imbalance["A"]) = 2

\* ------------------------------------------------------------------ C36
\* C36: when on_book computes vol_per_min at time now, the symbol's window holds
\* no print with ts < now - WINDOW_SECONDS
WindowFresh ==
    \A i \in 1..Len(mk.summarized) : mk.summarized[i].ts >= mk.at - WINDOW_SECONDS

\* ------------------------------------------------------------------ C37
\* C37: every print in the symbol's window has size > 0, the fallback prints of
\* on_book too, and two fallback prints are at least 10 s apart
PrintsPositive ==
    /\ \A i \in 1..Len(mk.trades) : mk.trades[i].sz > 0
    /\ \A i \in 1..Len(mk.fallbacks) : \A j \in 1..Len(mk.fallbacks) :
          i < j => mk.fallbacks[j] - mk.fallbacks[i] >= FALLBACK_EVERY_SEC

\* the parts of C37 that the code keeps: the prints of TIMESALE and CHART_EQUITY
\* have size > 0, and two fallback prints are at least 10 s apart
StreamPrintsPositive ==
    /\ \A i \in 1..Len(mk.trades) :
          mk.trades[i].src # "fallback" => mk.trades[i].sz > 0
    /\ \A i \in 1..Len(mk.fallbacks) : \A j \in 1..Len(mk.fallbacks) :
          i < j => mk.fallbacks[j] - mk.fallbacks[i] >= FALLBACK_EVERY_SEC

\* ------------------------------------------------------------------ C38
\* the calls `op` of the alert's leg `leg`
LegEvents(op, leg) ==
    {i \in 1..Len(trace) : trace[i].op = op /\ trace[i].leg = leg}

\* a leg has at most two limit orders, and none at the market beside two
AtMostOneReprice ==
    cfg.policy = "REPRICE" =>
        \A leg \in {"close", "open"} :
            /\ Cardinality(LegEvents("submit_limit", leg)) <= 2
            /\ Cardinality(LegEvents("submit_limit", leg)) = 2 =>
                   LegEvents("submit_market", leg) = {}

\* the steps of _submit_order after the first limit order timed out: the cancel
\* leads to the repriced order iff it succeeded and a remainder is left; that
\* order is for qty - filled_qty; its poll ends the leg
RepriceSteps ==
    /\ pc = "cancel" /\ cfg.policy = "REPRICE" /\ pc' # "shutdown" =>
           (pc' = "reprice" <=>
               /\ trace'[Len(trace')].ok
               /\ frame'.qty - frame'.filled_qty > 0)
    /\ pc = "reprice" =>
           /\ Len(trace') = Len(trace) + 1
           /\ LET ev == trace'[Len(trace')]
              IN  /\ ev.op = "submit_limit"
                  /\ ev.leg = frame.leg
                  /\ ev.qty = frame.qty - frame.filled_qty
                  /\ ev.qty > 0
           /\ pc' \in {"repoll", "leg_done"}
    /\ pc = "repoll" =>
           /\ trace' = trace
           /\ pc' \in {"repoll", "leg_done", "shutdown"}
           /\ frame'.waited < LIMIT_FILL_TIMEOUT

\* C38: under timeout policy REPRICE, after the first limit order timed out and
\* was cancelled, one further limit order is submitted, for the remainder qty -
\* filled_seen, and polled for up to LIMIT_FILL_TIMEOUT; no third limit order
\* and no market order follows in that leg
RepriceOnce == [][RepriceSteps]_vars /\ []AtMostOneReprice

\* a leg whose first limit order filled a share, was cancelled and repriced for
\* the remainder, and whose repriced order timed out too
RepriceOnceWitness ==
    /\ cfg.policy = "REPRICE"
    /\ pc = "leg_done"
    /\ frame.fill_status = "TIMEOUT"
    /\ frame.filled_qty = 1
    /\ \E i \in LegEvents("submit_limit", frame.leg) :
          /\ i = Len(trace)
          /\ trace[i].ok
          /\ trace[i].qty = 1
          /\ Cardinality(LegEvents("submit_limit", frame.leg)) = 2

\* ------------------------------------------------------------------ C40
\* the first status read of _reconcile_outstanding_limit clears the entry on a
\* filled status
ClearedAsFilled ==
    /\ pc = "reconcile"
    /\ outstanding_limits[cur.symbol] # NoLimit
    /\ outstanding_limits'[cur.symbol] = NoLimit
    /\ orders'[outstanding_limits[cur.symbol].order_id].status \in FILLED_STATUSES

\* C40: when _reconcile_outstanding_limit clears the entry because the broker
\* reports a filled status, the shares of the order not yet seen, qty -
\* filled_seen, have been added to the position, also when the reply carries no
\* filled quantity
FilledClearRecordsRemainder ==
    [][ClearedAsFilled =>
          LET sym == cur.symbol
              entry == outstanding_limits[sym]
          IN  positions'[sym] =
                  positions[sym] + SideDelta(entry.side, entry.qty - entry.filled_seen)]_vars

====
